---- MODULE Spec2Model ----
EXTENDS Integers, Sequences, FiniteSets, TLC

(***************************************************************************)
(* Flat-vector feature extraction for query plans:                         *)
(*   training/generate_op_idx_dict.py  (vocabulary builder, tree walker)   *)
(*   training/extract_feature_flat.py  (encoder, dataset assembler)        *)
(***************************************************************************)

VARIABLES
    pc,            \* position of the running program
    op_idx_dict,   \* op_idx_dict.json as written by the builder and loaded by
                   \* extract_feature_flat: operator name -> index
    plan_json,     \* the argument of the current extract_flat_vector call
    enc_out,       \* what that call produced: [raised, vec]
    corpus,        \* the files under root_dir
    walk_todo,     \* files os.walk has still to yield
    ops,           \* collect_ops_recursively: ops
    files,         \* collect_ops_recursively: files
    log,           \* paths named in the warnings printed so far
    dataset_configs, \* the argument of build_multi_dataset_df
    cfg_i,         \* position of `for cfg in dataset_configs` (from 1)
    todo,          \* what the inner loop of the current source has still to visit
    labels,        \* the label table of the current Mode A source
    feats_list,    \* build_multi_dataset_df: feats_list
    metas,         \* build_multi_dataset_df: metas
    reads,         \* positions of the sources whose files have been read
    err,           \* the exception that ended the call, "none" while there is none
    df,            \* the table returned
    df_train,      \* flat_vector.main: the three tables of one leave-one-out round
    df_valid,
    df_test,
    X_train,       \* flat_vector.main: their feature tables
    X_valid,
    X_test,
    all_cols       \* flat_vector.main: the union of the feature columns

encVars == <<plan_json, enc_out>>
scanVars == <<corpus, walk_todo, ops, files, log>>
asmVars == <<dataset_configs, cfg_i, todo, labels, feats_list, metas, reads, err, df>>
splitVars == <<df_train, df_valid, df_test, X_train, X_valid, X_test, all_cols>>
vars == <<pc, op_idx_dict, plan_json, enc_out, corpus, walk_todo, ops, files, log,
          dataset_configs, cfg_i, todo, labels, feats_list, metas, reads, err, df,
          df_train, df_valid, df_test, X_train, X_valid, X_test, all_cols>>

(***************************************************************************)
(* Bounds of the model                                                     *)
(***************************************************************************)
MaxChildren == 2      \* longest child list of a generated plan node
MaxEstimates == 2     \* longest estimates list of a generated plan node
MaxFiles == 4         \* most files in a scanned corpus
MaxSources == 2       \* longest list of dataset sources

(***************************************************************************)
(* JSON values as json.load returns them.  Every value carries its Python  *)
(* type; a dict is a function from key strings to values, a list a         *)
(* sequence.                                                               *)
(***************************************************************************)
Null == [t |-> "null"]
Bool(b) == [t |-> "bool", b |-> b]
Num(n) == [t |-> "num", n |-> n]
Str(s) == [t |-> "str", s |-> s]
List(l) == [t |-> "list", l |-> l]

\* The strings of the model with their Unicode code points (what str
\* comparison, isdigit() and float() look at).  A string outside ASCII is
\* written by the names of its code points: "U+00B2" is the one character
\* SUPERSCRIPT TWO, "U+0663" the one character ARABIC-INDIC DIGIT THREE.
CodePoints ==
    ("Filter"          :> <<70, 105, 108, 116, 101, 114>>) @@
    ("Foo"             :> <<70, 111, 111>>) @@
    ("Output"          :> <<79, 117, 116, 112, 117, 116>>) @@
    ("Unknown"         :> <<85, 110, 107, 110, 111, 119, 110>>) @@
    ("40"              :> <<52, 48>>) @@
    ("abc"             :> <<97, 98, 99>>) @@
    (""                :> <<>>) @@
    ("0"               :> <<48>>) @@
    ("1"               :> <<49>>) @@
    ("name"            :> <<110, 97, 109, 101>>) @@
    ("children"        :> <<99, 104, 105, 108, 100, 114, 101, 110>>) @@
    ("estimates"       :> <<101, 115, 116, 105, 109, 97, 116, 101, 115>>) @@
    ("outputRowCount"  :> <<111, 117, 116, 112, 117, 116, 82, 111, 119, 67, 111, 117, 110, 116>>) @@
    ("Node Type"       :> <<78, 111, 100, 101, 32, 84, 121, 112, 101>>) @@
    ("Plans"           :> <<80, 108, 97, 110, 115>>) @@
    ("nodeType"        :> <<110, 111, 100, 101, 84, 121, 112, 101>>) @@
    ("plan_parameters" :> <<112, 108, 97, 110, 95, 112, 97, 114, 97, 109, 101, 116, 101, 114, 115>>) @@
    ("op_name"         :> <<111, 112, 95, 110, 97, 109, 101>>) @@
    ("plan"            :> <<112, 108, 97, 110>>) @@
    ("valid_queries"   :> <<118, 97, 108, 105, 100, 95, 113, 117, 101, 114, 105, 101, 115>>) @@
    ("runtime_ms"      :> <<114, 117, 110, 116, 105, 109, 101, 95, 109, 115>>) @@
    ("file"            :> <<102, 105, 108, 101>>) @@
    ("stmt_no"         :> <<115, 116, 109, 116, 95, 110, 111>>) @@
    (".json"           :> <<46, 106, 115, 111, 110>>) @@
    (".sql"            :> <<46, 115, 113, 108>>) @@
    ("q1_a.json"       :> <<113, 49, 95, 97, 46, 106, 115, 111, 110>>) @@
    ("q2_b.json"       :> <<113, 50, 95, 98, 46, 106, 115, 111, 110>>) @@
    ("q3.json"         :> <<113, 51, 46, 106, 115, 111, 110>>) @@
    ("readme.txt"      :> <<114, 101, 97, 100, 109, 101, 46, 116, 120, 116>>) @@
    ("bundle.json"     :> <<98, 117, 110, 100, 108, 101, 46, 106, 115, 111, 110>>) @@
    ("broken.json"     :> <<98, 114, 111, 107, 101, 110, 46, 106, 115, 111, 110>>) @@
    ("q1.sql"          :> <<113, 49, 46, 115, 113, 108>>) @@
    ("q2.sql"          :> <<113, 50, 46, 115, 113, 108>>) @@
    ("q3.sql"          :> <<113, 51, 46, 115, 113, 108>>) @@
    ("a.sql"           :> <<97, 46, 115, 113, 108>>) @@
    ("b.sql"           :> <<98, 46, 115, 113, 108>>) @@
    ("Filter_count"    :> <<70, 105, 108, 116, 101, 114, 95, 99, 111, 117, 110, 116>>) @@
    ("Foo_count"       :> <<70, 111, 111, 95, 99, 111, 117, 110, 116>>) @@
    ("Output_count"    :> <<79, 117, 116, 112, 117, 116, 95, 99, 111, 117, 110, 116>>) @@
    ("Filter_cardSum"  :> <<70, 105, 108, 116, 101, 114, 95, 99, 97, 114, 100, 83, 117, 109>>) @@
    ("Foo_cardSum"     :> <<70, 111, 111, 95, 99, 97, 114, 100, 83, 117, 109>>) @@
    ("Output_cardSum"  :> <<79, 117, 116, 112, 117, 116, 95, 99, 97, 114, 100, 83, 117, 109>>) @@
    ("catalog"         :> <<99, 97, 116, 97, 108, 111, 103>>) @@
    ("schema"          :> <<115, 99, 104, 101, 109, 97>>) @@
    ("stage"           :> <<115, 116, 97, 103, 101>>) @@
    ("Join"            :> <<74, 111, 105, 110>>) @@
    ("Sort"            :> <<83, 111, 114, 116>>) @@
    ("Limit"           :> <<76, 105, 109, 105, 116>>) @@
    ("Aggregate"       :> <<65, 103, 103, 114, 101, 103, 97, 116, 101>>) @@
    ("2"               :> <<50>>) @@
    ("sql"             :> <<115, 113, 108>>) @@
    ("rows"            :> <<114, 111, 119, 115>>) @@
    ("cpu_ms"          :> <<99, 112, 117, 95, 109, 115>>) @@
    ("peak_mem"        :> <<112, 101, 97, 107, 95, 109, 101, 109>>) @@
    ("q3.sql\n"        :> <<113, 51, 46, 115, 113, 108, 10>>) @@
    (" +4.0e1 "        :> <<32, 43, 52, 46, 48, 101, 49, 32>>) @@
    ("U+00B2"          :> <<178>>) @@
    ("U+0663"          :> <<1635>>)

\* s < t for Python str: code point by code point, a proper prefix first
RECURSIVE LexLess(_, _)
LexLess(a, b) ==
    IF b = <<>> THEN FALSE
    ELSE IF a = <<>> THEN TRUE
    ELSE IF a[1] # b[1] THEN a[1] < b[1]
    ELSE LexLess(Tail(a), Tail(b))

StrLess(s, u) == LexLess(CodePoints[s], CodePoints[u])

\* a plausible slip: descending order
RECURSIVE SortedDescending(_)
SortedDescending(S) ==
    IF S = {} THEN <<>>
    ELSE LET m == CHOOSE x \in S : \A y \in S \ {x} : StrLess(y, x)
         IN <<m>> \o SortedDescending(S \ {m})

\* sorted(S) for a set of str
RECURSIVE Sorted(_)
Sorted(S) ==
    IF S = {} THEN <<>>
    ELSE LET m == CHOOSE x \in S : \A y \in S \ {x} : StrLess(x, y)
         IN <<m>> \o Sorted(S \ {m})

\* A dict keeps its keys in insertion order, which for a loaded document is
\* the order of the keys in the file: k lists the keys of d in that order.
DictInOrder(d, k) == [t |-> "dict", d |-> d, k |-> k]

\* The order in which a document of the model has its keys: the keys the
\* execution harness writes for a bundle and its entries, the keys the
\* engines write for a plan node and the fragment numbers, in the order of
\* their writers; after them every other string of the model, in code point
\* order.
KeyOrder ==
    <<"catalog", "schema", "valid_queries", "file", "stmt_no", "sql", "plan",
      "runtime_ms", "rows", "cpu_ms", "peak_mem", "name", "plan_parameters",
      "op_name", "nodeType", "Node Type", "outputRowCount", "estimates",
      "children", "Plans", "0", "1", "2",
      "", " +4.0e1 ", ".json", ".sql", "40", "Aggregate", "Filter",
      "Filter_cardSum", "Filter_count", "Foo", "Foo_cardSum", "Foo_count",
      "Join", "Limit", "Output", "Output_cardSum", "Output_count", "Sort",
      "Unknown", "a.sql", "abc", "b.sql", "broken.json", "bundle.json",
      "q1.sql", "q1_a.json", "q2.sql", "q2_b.json", "q3.json", "q3.sql",
      "q3.sql\n", "readme.txt", "stage", "U+00B2", "U+0663">>

\* a dict whose keys were written in that order; a key that is no string of
\* the model leaves it without a value
Dict(d) ==
    CHOOSE x \in { DictInOrder(e, SelectSeq(KeyOrder, LAMBDA k : k \in DOMAIN e)) :
                     e \in {d} } : Len(x.k) = Cardinality(DOMAIN x.d)

\* dict.get(k, default)
Get(node, k, default) == IF k \in DOMAIN node.d THEN node.d[k] ELSE default

\* dict.values() / dict.items(): the values, in key order
DictValues(node) == [i \in 1..Len(node.k) |-> node.d[node.k[i]]]

\* What `for x in v` iterates over; ok = FALSE is the TypeError of a
\* non-iterable.  A dict yields its keys in key order, a str its characters
\* (each a str; the model stands one str per character).
Iterate(v) ==
    CASE v.t = "list" -> [ok |-> TRUE, items |-> v.l]
      [] v.t = "dict" -> [ok |-> TRUE,
                          items |-> [i \in 1..Len(v.k) |-> Str(v.k[i])]]
      [] v.t = "str"  -> [ok |-> TRUE,
                          items |-> [i \in 1..Len(CodePoints[v.s]) |-> Str(v.s)]]
      [] OTHER        -> [ok |-> FALSE, items |-> <<>>]

\* str.isdigit() looks at the Unicode database: the code points with the
\* property Numeric_Type Digit or Decimal (Unicode 14, CPython 3.11), as
\* inclusive ranges.  Superscripts and circled digits are among them.
DigitRanges ==
    {<<48, 57>>, <<178, 179>>, <<185, 185>>, <<1632, 1641>>,
     <<1776, 1785>>, <<1984, 1993>>, <<2406, 2415>>, <<2534, 2543>>,
     <<2662, 2671>>, <<2790, 2799>>, <<2918, 2927>>, <<3046, 3055>>,
     <<3174, 3183>>, <<3302, 3311>>, <<3430, 3439>>, <<3558, 3567>>,
     <<3664, 3673>>, <<3792, 3801>>, <<3872, 3881>>, <<4160, 4169>>,
     <<4240, 4249>>, <<4969, 4977>>, <<6112, 6121>>, <<6160, 6169>>,
     <<6470, 6479>>, <<6608, 6618>>, <<6784, 6793>>, <<6800, 6809>>,
     <<6992, 7001>>, <<7088, 7097>>, <<7232, 7241>>, <<7248, 7257>>,
     <<8304, 8304>>, <<8308, 8313>>, <<8320, 8329>>, <<9312, 9320>>,
     <<9332, 9340>>, <<9352, 9360>>, <<9450, 9450>>, <<9461, 9469>>,
     <<9471, 9471>>, <<10102, 10110>>, <<10112, 10120>>, <<10122, 10130>>,
     <<42528, 42537>>, <<43216, 43225>>, <<43264, 43273>>,
     <<43472, 43481>>, <<43504, 43513>>, <<43600, 43609>>,
     <<44016, 44025>>, <<65296, 65305>>, <<66720, 66729>>,
     <<68160, 68163>>, <<68912, 68921>>, <<69216, 69224>>,
     <<69714, 69722>>, <<69734, 69743>>, <<69872, 69881>>,
     <<69942, 69951>>, <<70096, 70105>>, <<70384, 70393>>,
     <<70736, 70745>>, <<70864, 70873>>, <<71248, 71257>>,
     <<71360, 71369>>, <<71472, 71481>>, <<71904, 71913>>,
     <<72016, 72025>>, <<72784, 72793>>, <<73040, 73049>>,
     <<73120, 73129>>, <<92768, 92777>>, <<92864, 92873>>,
     <<93008, 93017>>, <<120782, 120831>>, <<123200, 123209>>,
     <<123632, 123641>>, <<125264, 125273>>, <<127232, 127242>>,
     <<130032, 130041>>}
\* The code points of category Nd, the decimal digits float() and int()
\* accept; each range starts at a digit zero and counts up in tens.
DecimalRanges ==
    {<<48, 57>>, <<1632, 1641>>, <<1776, 1785>>, <<1984, 1993>>,
     <<2406, 2415>>, <<2534, 2543>>, <<2662, 2671>>, <<2790, 2799>>,
     <<2918, 2927>>, <<3046, 3055>>, <<3174, 3183>>, <<3302, 3311>>,
     <<3430, 3439>>, <<3558, 3567>>, <<3664, 3673>>, <<3792, 3801>>,
     <<3872, 3881>>, <<4160, 4169>>, <<4240, 4249>>, <<6112, 6121>>,
     <<6160, 6169>>, <<6470, 6479>>, <<6608, 6617>>, <<6784, 6793>>,
     <<6800, 6809>>, <<6992, 7001>>, <<7088, 7097>>, <<7232, 7241>>,
     <<7248, 7257>>, <<42528, 42537>>, <<43216, 43225>>, <<43264, 43273>>,
     <<43472, 43481>>, <<43504, 43513>>, <<43600, 43609>>,
     <<44016, 44025>>, <<65296, 65305>>, <<66720, 66729>>,
     <<68912, 68921>>, <<69734, 69743>>, <<69872, 69881>>,
     <<69942, 69951>>, <<70096, 70105>>, <<70384, 70393>>,
     <<70736, 70745>>, <<70864, 70873>>, <<71248, 71257>>,
     <<71360, 71369>>, <<71472, 71481>>, <<71904, 71913>>,
     <<72016, 72025>>, <<72784, 72793>>, <<73040, 73049>>,
     <<73120, 73129>>, <<92768, 92777>>, <<92864, 92873>>,
     <<93008, 93017>>, <<120782, 120831>>, <<123200, 123209>>,
     <<123632, 123641>>, <<125264, 125273>>, <<130032, 130041>>}

InRanges(c, rs) == \E r \in rs : r[1] <= c /\ c <= r[2]

\* s.isdigit(): at least one character and every character a digit
IsDigits(cs) == Len(cs) > 0 /\ \A i \in 1..Len(cs) : InRanges(cs[i], DigitRanges)

\* the digit value of a decimal digit
DecimalValue(c) ==
    LET r == CHOOSE q \in DecimalRanges : q[1] <= c /\ c <= q[2]
    IN (c - r[1]) % 10

\* float(str) ---------------------------------------------------------------
\* float() first turns every character outside ASCII into a space (the
\* whitespace of str.isspace, as inclusive ranges), the ASCII digit of a
\* decimal digit, or '?'
ToAscii(c) ==
    IF c < 128 THEN c
    ELSE IF InRanges(c, {<<133, 133>>, <<160, 160>>, <<5760, 5760>>, <<8192, 8202>>,
                         <<8232, 8233>>, <<8239, 8239>>, <<8287, 8287>>,
                         <<12288, 12288>>}) THEN 32
    ELSE IF InRanges(c, DecimalRanges) THEN 48 + DecimalValue(c)
    ELSE 63

\* and reads the result from left to right: whitespace, a sign, then inf,
\* infinity or nan in any case, or a decimal literal (digits with single
\* underscores between digits, a point, an exponent), then whitespace.
\* The kinds of character that matter:
CharClass(c) ==
    CASE c \in {9, 10, 11, 12, 13, 32} -> "ws"
      [] c \in {43, 45}  -> "sign"
      [] c \in 48..57    -> "digit"
      [] c = 95          -> "us"
      [] c = 46          -> "pt"
      [] c \in {69, 101} -> "e"
      [] c \in {73, 105} -> "i"
      [] c \in {78, 110} -> "n"
      [] c \in {70, 102} -> "f"
      [] c \in {84, 116} -> "t"
      [] c \in {89, 121} -> "y"
      [] c \in {65, 97}  -> "a"
      [] OTHER           -> "other"

\* where the reader is after each kind of character; a kind without an
\* entry ends the parse with a ValueError
FloatSyntax ==
    [ws0   |-> [ws |-> "ws0", sign |-> "start", digit |-> "int", pt |-> "pt0",
                i |-> "i1", n |-> "n1"],
     start |-> [digit |-> "int", pt |-> "pt0", i |-> "i1", n |-> "n1"],
     int   |-> [digit |-> "int", us |-> "intu", pt |-> "point", e |-> "e0", ws |-> "trail"],
     intu  |-> [digit |-> "int"],
     pt0   |-> [digit |-> "frac"],
     point |-> [digit |-> "frac", e |-> "e0", ws |-> "trail"],
     frac  |-> [digit |-> "frac", us |-> "fracu", e |-> "e0", ws |-> "trail"],
     fracu |-> [digit |-> "frac"],
     e0    |-> [sign |-> "esign", digit |-> "exp"],
     esign |-> [digit |-> "exp"],
     exp   |-> [digit |-> "exp", us |-> "expu", ws |-> "trail"],
     expu  |-> [digit |-> "exp"],
     trail |-> [ws |-> "trail"],
     i1    |-> [n |-> "i2"],
     i2    |-> [f |-> "inf"],
     inf   |-> [i |-> "i4", ws |-> "strail"],
     i4    |-> [n |-> "i5"],
     i5    |-> [i |-> "i6"],
     i6    |-> [t |-> "i7"],
     i7    |-> [y |-> "infinity"],
     infinity |-> [ws |-> "strail"],
     n1    |-> [a |-> "n2"],
     n2    |-> [n |-> "nan"],
     nan   |-> [ws |-> "strail"],
     strail |-> [ws |-> "strail"]]

\* The reader keeps the sign, the digits of the mantissa as a number m, how
\* many of them stand after the point, and the exponent x with its sign; a
\* mantissa of more than nine significant digits or an exponent of more
\* than two is kept as -1.
Reading(a, st, k, c) ==
    [st    |-> st,
     neg   |-> IF st = "start" THEN c = 45 ELSE a.neg,
     m     |-> IF k = "digit" /\ st \in {"int", "frac"}
               THEN (IF a.m = -1 \/ a.m >= 100000000 THEN -1 ELSE 10 * a.m + (c - 48))
               ELSE a.m,
     nfrac |-> IF k = "digit" /\ st = "frac" THEN a.nfrac + 1 ELSE a.nfrac,
     eneg  |-> IF st = "esign" THEN c = 45 ELSE a.eneg,
     x     |-> IF k = "digit" /\ st = "exp"
               THEN (IF a.x = -1 \/ a.x >= 10 THEN -1 ELSE 10 * a.x + (c - 48))
               ELSE a.x]

RECURSIVE ReadFloat(_, _)
ReadFloat(cs, a) ==
    IF cs = <<>> THEN a
    ELSE LET target(syntax, k) ==
                 IF a.st \in DOMAIN syntax /\ k \in DOMAIN syntax[a.st]
                 THEN syntax[a.st][k] ELSE "fail"
             read(c, k) == Reading(a, target(FloatSyntax, k), k, c)
             ascii(c) == read(c, CharClass(c))
         IN ReadFloat(Tail(cs), ascii(ToAscii(Head(cs))))

RECURSIVE Pow10(_)
Pow10(n) == IF n = 0 THEN 1 ELSE 10 * Pow10(n - 1)

\* m * 10^sh, when it is an integer of less than 32 bits
Scaled(m, sh) ==
    IF sh >= 0
    THEN (IF sh <= 9 /\ m <= 2147483647 \div Pow10(sh) THEN {m * Pow10(sh)} ELSE {})
    ELSE (IF -sh <= 9 /\ m % Pow10(-sh) = 0 THEN {m \div Pow10(-sh)} ELSE {})

\* The floats of the model are integers of less than 32 bits, which a double
\* holds exactly.  The value read is a set: empty when the float is none of
\* them (a fraction, an infinity, a nan, a number too large or too long).
FloatRead(a) ==
    IF a.st \in {"int", "point", "frac", "exp", "trail"}
    THEN [ok |-> TRUE,
          vals |-> IF a.m = 0 THEN {0}
                   ELSE IF a.m = -1 \/ a.x = -1 THEN {}
                   ELSE { IF a.neg THEN -v ELSE v :
                            v \in Scaled(a.m, (IF a.eneg THEN -a.x ELSE a.x) - a.nfrac) }]
    ELSE [ok |-> a.st \in {"inf", "infinity", "nan", "strail"}, vals |-> {}]

\* float(s) for a str of code points cs; a float the model has not leaves
\* val without a value
FloatOf(cs) ==
    LET result(r) == IF r.ok THEN [ok |-> TRUE, val |-> CHOOSE v \in r.vals : TRUE]
                     ELSE [ok |-> FALSE, val |-> 0]
    IN result(FloatRead(ReadFloat(cs, [st |-> "ws0", neg |-> FALSE, m |-> 0, nfrac |-> 0,
                                       eneg |-> FALSE, x |-> 0])))

\* float(v): ok = FALSE is the ValueError / TypeError it raises
PyFloat(v) ==
    CASE v.t = "num"  -> [ok |-> TRUE, val |-> v.n]
      [] v.t = "bool" -> [ok |-> TRUE, val |-> IF v.b THEN 1 ELSE 0]
      [] v.t = "str"  -> FloatOf(CodePoints[v.s])
      [] OTHER        -> [ok |-> FALSE, val |-> 0]

(***************************************************************************)
(* extract_feature_flat.py: module state derived from op_idx_dict          *)
(***************************************************************************)
op_list == Sorted(DOMAIN op_idx_dict)
no_ops == Len(op_list)

(***************************************************************************)
(* extract_flat_vector                                                     *)
(***************************************************************************)
Raise(acc) == [acc EXCEPT !.raised = TRUE]

\* op_idx_dict.get(op): Null when absent; an unhashable key is a TypeError
Unhashable(op) == op.t \in {"list", "dict"}
IdxOf(op) == IF op.t = "str" /\ op.s \in DOMAIN op_idx_dict
             THEN Num(op_idx_dict[op.s]) ELSE Null

\* vec[idx] += x with numpy indexing: negative wraps, out of range raises
InRange(idx) == idx >= -no_ops /\ idx < no_ops
Pos(idx) == IF idx < 0 THEN idx + no_ops + 1 ELSE idx + 1

\* a plausible slip: no try/except around float()
AddCardUnguarded(acc, idx, v) ==
    LET add(f) == IF f.ok THEN [acc EXCEPT !.card_vec[Pos(idx)] = @ + f.val]
                  ELSE Raise(acc)
    IN add(PyFloat(v))

\* try: card_vec[idx] += float(v)  except: pass
AddCard(acc, idx, v) ==
    LET add(f) == IF f.ok THEN [acc EXCEPT !.card_vec[Pos(idx)] = @ + f.val]
                  ELSE acc
    IN add(PyFloat(v))

\* try: card_vec[idx] += float(est.get('outputRowCount', 0))  except: pass
AddEstimate(acc, idx, est) ==
    IF est.t # "dict" THEN acc
    ELSE AddCard(acc, idx, Get(est, "outputRowCount", Num(0)))

RECURSIVE AddEstimates(_, _, _)
AddEstimates(acc, idx, ests) ==
    IF ests = <<>> THEN acc
    ELSE AddEstimates(AddEstimate(acc, idx, Head(ests)), idx, Tail(ests))

\* a plausible slip: the node's own outputRowCount is not added
CountNodeNoDirect(acc, idx, node) ==
    LET estimates(a1, ests) ==
            IF ests.ok THEN AddEstimates(a1, idx, ests.items) ELSE Raise(a1)
    IN estimates([acc EXCEPT !.num_vec[Pos(idx)] = @ + 1],
                 Iterate(Get(node, "estimates", List(<<>>))))

\* the body of `if idx is not None:`
CountNode(acc, idx, node) ==
    LET own(a1) == IF "outputRowCount" \in DOMAIN node.d
                   THEN AddCard(a1, idx, node.d["outputRowCount"]) ELSE a1
        estimates(a2, ests) ==
            IF ests.ok THEN AddEstimates(a2, idx, ests.items) ELSE Raise(a2)
    IN estimates(own([acc EXCEPT !.num_vec[Pos(idx)] = @ + 1]),
                 Iterate(Get(node, "estimates", List(<<>>))))

RECURSIVE extract_recurse(_, _), RecurseAll(_, _)

\* a plausible slip: the children of an out-of-vocabulary node are not visited
extract_recurse_prune(node, acc) ==
    IF acc.raised THEN acc
    ELSE IF node.t # "dict" THEN Raise(acc)
    ELSE LET children(a1, kids) ==
                 IF a1.raised THEN a1
                 ELSE IF ~kids.ok THEN Raise(a1)
                 ELSE RecurseAll(kids.items, a1)
             named(op, idx) ==
                 IF Unhashable(op) THEN Raise(acc)
                 ELSE IF idx = Null THEN acc
                 ELSE IF ~InRange(idx.n) THEN Raise(acc)
                 ELSE children(CountNode(acc, idx.n, node),
                               Iterate(Get(node, "children", List(<<>>))))
         IN named(Get(node, "name", Str("Unknown")),
                  IdxOf(Get(node, "name", Str("Unknown"))))

\* extract_flat_vector.recurse(node)
extract_recurse(node, acc) ==
    IF acc.raised THEN acc
    ELSE IF node.t # "dict" THEN Raise(acc)
    ELSE LET children(a1, kids) ==
                 IF a1.raised THEN a1
                 ELSE IF ~kids.ok THEN Raise(a1)
                 ELSE RecurseAll(kids.items, a1)
             named(op, idx) ==
                 IF Unhashable(op) THEN Raise(acc)
                 ELSE IF idx # Null /\ ~InRange(idx.n) THEN Raise(acc)
                 ELSE children(IF idx # Null THEN CountNode(acc, idx.n, node) ELSE acc,
                               Iterate(Get(node, "children", List(<<>>))))
         IN named(Get(node, "name", Str("Unknown")),
                  IdxOf(Get(node, "name", Str("Unknown"))))

\* the for loops over children and over the fragment roots
RecurseAll(nodes, acc) ==
    IF nodes = <<>> THEN acc
    ELSE RecurseAll(Tail(nodes), extract_recurse(Head(nodes), acc))

\* a plausible slip: only the counts are returned
extract_flat_vector_counts_only(plan) ==
    LET result(acc) == IF acc.raised THEN [raised |-> TRUE, vec |-> <<>>]
                       ELSE [raised |-> FALSE, vec |-> acc.num_vec]
        walk(acc0) == IF plan.t # "dict" THEN Raise(acc0)
                      ELSE RecurseAll(DictValues(plan), acc0)
    IN result(walk([num_vec |-> [i \in 1..no_ops |-> 0],
                    card_vec |-> [i \in 1..no_ops |-> 0], raised |-> FALSE]))

extract_flat_vector(plan) ==
    LET result(acc) == IF acc.raised THEN [raised |-> TRUE, vec |-> <<>>]
                       ELSE [raised |-> FALSE, vec |-> acc.num_vec \o acc.card_vec]
        walk(acc0) == IF plan.t # "dict" THEN Raise(acc0)
                      ELSE RecurseAll(DictValues(plan), acc0)
    IN result(walk([num_vec |-> [i \in 1..no_ops |-> 0],
                    card_vec |-> [i \in 1..no_ops |-> 0], raised |-> FALSE]))

(***************************************************************************)
(* generate_op_idx_dict.py: the plan tree walker                           *)
(***************************************************************************)
\* bool(v)
Truthy(v) ==
    CASE v.t = "null" -> FALSE
      [] v.t = "bool" -> v.b
      [] v.t = "num"  -> v.n # 0
      [] v.t = "str"  -> v.s # ""
      [] v.t = "list" -> v.l # <<>>
      [] v.t = "dict" -> DOMAIN v.d # {}

\* k.isdigit()
IsDigit(k) == IsDigits(CodePoints[k])

\* a plausible slip: the nested operator name is tried before the name field
OpOf_nested_first(node) ==
    LET name == Get(node, "name", Null)
        pp == Get(node, "plan_parameters", Dict(<<>>))
        nt == Get(node, "nodeType", Null)
    IN IF pp.t # "dict" THEN [raised |-> TRUE, op |-> Null]
       ELSE IF Truthy(Get(pp, "op_name", Null))
            THEN [raised |-> FALSE, op |-> Get(pp, "op_name", Null)]
       ELSE IF Truthy(name) THEN [raised |-> FALSE, op |-> name]
       ELSE IF Truthy(nt) THEN [raised |-> FALSE, op |-> nt]
       ELSE [raised |-> FALSE, op |-> Get(node, "Node Type", Null)]

\* the `or` chain that names a node: [raised, op]; the nested lookup raises
\* when plan_parameters is not a dict
OpOf(node) ==
    LET name == Get(node, "name", Null)
        pp == Get(node, "plan_parameters", Dict(<<>>))
        nt == Get(node, "nodeType", Null)
    IN IF Truthy(name) THEN [raised |-> FALSE, op |-> name]
       ELSE IF pp.t # "dict" THEN [raised |-> TRUE, op |-> Null]
       ELSE IF Truthy(Get(pp, "op_name", Null))
            THEN [raised |-> FALSE, op |-> Get(pp, "op_name", Null)]
       ELSE IF Truthy(nt) THEN [raised |-> FALSE, op |-> nt]
       ELSE [raised |-> FALSE, op |-> Get(node, "Node Type", Null)]

\* children: [raised, items]; `children += x` raises on a non-iterable
ChildrenOf(node) ==
    LET a == Iterate(Get(node, "children", List(<<>>)))
        b == Iterate(Get(node, "Plans", List(<<>>)))
        p == IF "plan" \in DOMAIN node.d /\ node.d["plan"].t \in {"dict", "list"}
             THEN <<node.d["plan"]>> ELSE <<>>
    IN IF a.ok /\ b.ok THEN [raised |-> FALSE, items |-> a.items \o b.items \o p]
       ELSE [raised |-> TRUE, items |-> <<>>]

\* a == b for two hashable values: a bool is the int 0 or 1
PyEq(a, b) ==
    CASE a.t = "bool" /\ b.t = "num" -> b.n = (IF a.b THEN 1 ELSE 0)
      [] a.t = "num" /\ b.t = "bool" -> a.n = (IF b.b THEN 1 ELSE 0)
      [] OTHER -> a = b

\* s.add(x): an element equal to x already in the set stays, x is dropped
SetAdd(s, x) == IF \E y \in s : PyEq(x, y) THEN s ELSE s \cup {x}

RECURSIVE recurse(_, _), recurse_each(_, _)

\* recurse(node, ops), on the accumulator [raised, ops]
recurse(node, acc) ==
    IF acc.raised THEN acc
    ELSE IF node.t = "dict" THEN
        IF DOMAIN node.d # {} /\ \A k \in DOMAIN node.d : IsDigit(k)
        THEN recurse_each(DictValues(node), acc)
        ELSE LET o == OpOf(node)
                 kids == ChildrenOf(node)
             IN IF o.raised THEN Raise(acc)
                ELSE IF Truthy(o.op) /\ Unhashable(o.op) THEN Raise(acc)
                ELSE LET a1 == IF Truthy(o.op)
                               THEN [acc EXCEPT !.ops = SetAdd(@, o.op)] ELSE acc
                     IN IF kids.raised THEN Raise(a1)
                        ELSE recurse_each(kids.items, a1)
    ELSE IF node.t = "list" THEN recurse_each(node.l, acc)
    ELSE acc

recurse_each(nodes, acc) ==
    IF nodes = <<>> THEN acc
    ELSE recurse_each(Tail(nodes), recurse(Head(nodes), acc))


(***************************************************************************)
(* Inputs: operator vocabularies and plan documents                        *)
(***************************************************************************)
OpNames == {"Filter", "Foo", "Output"}

\* every dense vocabulary over a subset of OpNames (op_idx_dict.json)
Vocabularies ==
    UNION { { f \in [S -> 0..(Cardinality(S) - 1)] :
                \A a, b \in S : a # b => f[a] # f[b] } : S \in SUBSET OpNames }

Absent == [t |-> "absent"]
Field(k, v) == IF v = Absent THEN <<>> ELSE (k :> v)
SeqsUpTo(S, n) == UNION { [1..k -> S] : k \in 0..n }

\* Engine-A node: name, outputRowCount, estimates, children
ANode(name, card, ests, kids) ==
    Dict(("name" :> Str(name)) @@ Field("outputRowCount", card)
         @@ Field("estimates", ests) @@ ("children" :> List(kids)))
\* Engine-B node: Node Type, Plans
BNode(name, kids) == Dict(("Node Type" :> Str(name)) @@ ("Plans" :> List(kids)))
\* nested operator-name node: plan_parameters.op_name, children
PNode(name, kids) ==
    Dict(("plan_parameters" :> Dict("op_name" :> Str(name)))
         @@ ("children" :> List(kids)))

\* any JSON value may sit in an outputRowCount field
Cards == {Absent, Num(100), Str("40"), Str(" +4.0e1 "), Str("abc"), Null, Bool(TRUE),
          List(<<Num(40)>>), Dict(<<>>)}
EstRecords == {Dict("outputRowCount" :> Num(40)), Dict("outputRowCount" :> Str("abc")),
               Dict("outputRowCount" :> Null), Dict(<<>>)}
EstLists == {Absent} \cup { List(s) : s \in SeqsUpTo(EstRecords, MaxEstimates) }

\* single nodes with every combination of cardinality fields
RichNodes == { ANode(n, c, e, <<>>) : n \in OpNames, c \in Cards, e \in EstLists }
Leaves == { ANode(n, Num(100), Absent, <<>>) : n \in OpNames } \cup
          { ANode(n, Num(40), List(<<Dict("outputRowCount" :> Num(40))>>), <<>>) :
              n \in OpNames }
Inner == { ANode(n, Num(100), Absent, kids) :
             n \in OpNames, kids \in SeqsUpTo(Leaves, MaxChildren) \ {<<>>} }
Deep == { ANode(n, Str("abc"), Absent, <<k>>) : n \in OpNames, k \in Inner }
ARoots == RichNodes \cup Leaves \cup Inner \cup Deep

BLeaves == { BNode(n, <<>>) : n \in OpNames }
BRoots == BLeaves \cup
          { BNode(n, kids) : n \in OpNames, kids \in SeqsUpTo(BLeaves, MaxChildren) \ {<<>>} }
PRoots == { PNode(n, kids) : n \in OpNames, kids \in SeqsUpTo(Leaves, 1) }

\* fragment mappings {"0": root} and {"0": root, "1": root}
APlans == { Dict("0" :> r) : r \in ARoots } \cup
          { Dict(("0" :> r) @@ ("1" :> q)) : r \in Leaves \cup Inner, q \in Leaves }
OtherPlans == { Dict("0" :> r) : r \in BRoots \cup PRoots }
Plans == APlans \cup OtherPlans \cup {Dict(<<>>)}

\* the plan of the spec's scenario: Output(100) over Filter(40, estimates [40])
ExamplePlan ==
    Dict("0" :> ANode("Output", Num(100), Absent,
                      <<ANode("Filter", Num(40),
                              List(<<Dict("outputRowCount" :> Num(40))>>), <<>>)>>))

\* and its vocabulary, a file whose indices are not in sorted order
ExampleVocabulary == ("Output" :> 0) @@ ("Filter" :> 1)

NoOut == [raised |-> FALSE, vec |-> <<>>]

(***************************************************************************)
(* The encoder on one plan: the module is imported (the vocabulary file is *)
(* loaded), then extract_flat_vector is called once.                       *)
(***************************************************************************)
ScanIdle ==
    /\ corpus = {}
    /\ walk_todo = {}
    /\ ops = {}
    /\ files = <<>>
    /\ log = <<>>

NoTable == [columns |-> <<>>, rows |-> <<>>]

SplitIdle ==
    /\ df_train = NoTable
    /\ df_valid = NoTable
    /\ df_test = NoTable
    /\ X_train = NoTable
    /\ X_valid = NoTable
    /\ X_test = NoTable
    /\ all_cols = <<>>

AsmIdle ==
    /\ dataset_configs = <<>>
    /\ cfg_i = 1
    /\ todo = <<>>
    /\ labels = <<>>
    /\ feats_list = <<>>
    /\ metas = <<>>
    /\ reads = {}
    /\ err = "none"
    /\ df = NoTable

InitEnc ==
    /\ pc = "loaded"
    /\ op_idx_dict \in Vocabularies
    /\ plan_json \in Plans
    /\ enc_out = NoOut
    /\ ScanIdle
    /\ AsmIdle
    /\ SplitIdle

Encode ==
    /\ pc = "loaded"
    /\ enc_out' = extract_flat_vector(plan_json)
    /\ pc' = "encoded"
    /\ UNCHANGED <<op_idx_dict, plan_json, scanVars, asmVars, splitVars>>

NextEnc == Encode

SpecEnc == InitEnc /\ [][NextEnc]_vars

(***************************************************************************)
(* generate_op_idx_dict.py: collect_ops_recursively and main               *)
(***************************************************************************)
\* s.endswith(suffix), on code points
EndsWith(cs, suffix) ==
    /\ Len(cs) >= Len(suffix)
    /\ SubSeq(cs, Len(cs) - Len(suffix) + 1, Len(cs)) = suffix

\* what open() + json.load give for a file that cannot be read or parsed
Unreadable == [t |-> "unreadable"]

\* a file: the directories from root_dir down to it, its name, its content
File(dirs, fname, content) == [dirs |-> dirs, fname |-> fname, content |-> content]
PathOf(f) == [dirs |-> f.dirs, fname |-> f.fname]

\* a bundle entry as the execution harness writes it
Query(plan, ms, file, stmt_no) ==
    Dict(Field("plan", plan) @@ Field("runtime_ms", ms)
         @@ ("file" :> Str(file)) @@ ("stmt_no" :> Num(stmt_no)))

FilePool ==
    { File(<<>>, "q1_a.json", ExamplePlan),
      File(<<>>, "q3.json", PNode("Foo", <<>>)),
      File(<<>>, "broken.json", Unreadable),
      File(<<>>, "readme.txt", Dict("0" :> ANode("Foo", Num(100), Absent, <<>>))),
      File(<<"tpch">>, "q2_b.json", BNode("Foo", <<BNode("Filter", <<>>)>>)),
      File(<<"tpch">>, "broken.json", Unreadable),
      File(<<"tpch">>, "bundle.json",
           Dict("valid_queries" :> List(<<
               Query(Dict("0" :> ANode("Output", Num(100), Absent, <<>>)), Num(1500), "a.sql", 1),
               Query(Null, Num(20), "a.sql", 2)>>))),
      File(<<"validation">>, "q2_b.json",
           Dict("0" :> ANode("Foo", Num(100), Absent, <<>>))) }

Corpora == { c \in SUBSET FilePool : Cardinality(c) <= MaxFiles }

\* os.walk with every directory named 'validation' removed from dirnames
Walked(c) == { f \in c : \A i \in 1..Len(f.dirs) : f.dirs[i] # "validation" }

\* the plans of a valid_queries list, on the accumulator [raised, ops]:
\* entry.get('plan') raises when the entry is not a dict
RECURSIVE recurse_entries(_, _)
recurse_entries(entries, acc) ==
    IF acc.raised \/ entries = <<>> THEN acc
    ELSE IF Head(entries).t # "dict" THEN Raise(acc)
    ELSE LET plan == Get(Head(entries), "plan", Null)
         IN recurse_entries(Tail(entries),
                            IF plan # Null THEN recurse(plan, acc) ELSE acc)

\* a plausible slip: the bundle wrapper is not looked for
collect_data_unwrapped(data, acc) == recurse(data, acc)

\* the walk over one loaded document
collect_data(data, acc) ==
    IF data.t = "dict" /\ "valid_queries" \in DOMAIN data.d
    THEN LET q == Iterate(data.d["valid_queries"])
         IN IF q.ok THEN recurse_entries(q.items, acc) ELSE Raise(acc)
    ELSE recurse(data, acc)

\* a plausible slip: open/json.load outside any try
collect_file_no_except(f, st) ==
    IF ~EndsWith(CodePoints[f.fname], CodePoints[".json"]) THEN st
    ELSE IF f.content = Unreadable THEN [st EXCEPT !.raised = TRUE]
    ELSE LET r == collect_data(f.content, [raised |-> FALSE, ops |-> st.ops])
         IN [st EXCEPT !.files = Append(@, PathOf(f)),
                       !.ops = r.ops, !.raised = r.raised]

\* one iteration of `for fname in filenames`, on [raised, ops, files, log]
collect_file(f, st) ==
    IF ~EndsWith(CodePoints[f.fname], CodePoints[".json"]) THEN st
    ELSE IF f.content = Unreadable THEN [st EXCEPT !.log = Append(@, PathOf(f))]
    ELSE LET r == collect_data(f.content, [raised |-> FALSE, ops |-> st.ops])
         IN [st EXCEPT !.files = Append(@, PathOf(f)),
                       !.ops = r.ops, !.raised = r.raised]

\* a plausible slip: indices handed out from the far end of the sorted list
index_dict_reversed(all_ops) ==
    LET l == Sorted({ o.s : o \in all_ops })
    IN [op \in { o.s : o \in all_ops } |->
          Len(l) - (CHOOSE i \in 1..Len(l) : l[i] = op)]

\* {op: idx for idx, op in enumerate(sorted(all_ops))}
index_dict(all_ops) ==
    LET l == Sorted({ o.s : o \in all_ops })
    IN [op \in { o.s : o \in all_ops } |-> (CHOOSE i \in 1..Len(l) : l[i] = op) - 1]

InitVocab ==
    /\ pc = "scanning"
    /\ corpus \in Corpora
    /\ walk_todo = Walked(corpus)
    /\ ops = {}
    /\ files = <<>>
    /\ log = <<>>
    /\ op_idx_dict = <<>>
    /\ plan_json = Dict(<<>>)
    /\ enc_out = NoOut
    /\ AsmIdle
    /\ SplitIdle

\* os.walk yields the next file, in whatever order the file system lists it
ScanFile ==
    /\ pc = "scanning"
    /\ \E f \in walk_todo :
         LET r == collect_file(f, [raised |-> FALSE, ops |-> ops,
                                   files |-> files, log |-> log])
         IN /\ walk_todo' = walk_todo \ {f}
            /\ ops' = r.ops
            /\ files' = r.files
            /\ log' = r.log
            /\ pc' = IF r.raised THEN "scan_raised" ELSE "scanning"
    /\ UNCHANGED <<corpus, op_idx_dict, encVars, asmVars, splitVars>>

\* the walk is over: main sorts the operators and writes the dictionary
WriteDict ==
    /\ pc = "scanning"
    /\ walk_todo = {}
    /\ op_idx_dict' = index_dict(ops)
    /\ pc' = "written"
    /\ UNCHANGED <<scanVars, encVars, asmVars, splitVars>>

NextVocab == ScanFile \/ WriteDict

SpecVocab == InitVocab /\ [][NextVocab]_vars


(***************************************************************************)
(* The tree walker on one loaded document: recurse(data, ops) as the       *)
(* builder calls it, and the builder's handling of a whole document        *)
(* (valid_queries wrapper, then recurse).                                  *)
(***************************************************************************)
\* a node with any of the fields the walker probes
WNode(name, pp, nt, pg, kids, plans, plan) ==
    Dict(Field("name", name) @@ Field("plan_parameters", pp) @@ Field("nodeType", nt)
         @@ Field("Node Type", pg) @@ Field("children", kids) @@ Field("Plans", plans)
         @@ Field("plan", plan))

\* one child per place a child can sit in, each of another dialect
ChildLeaf == Dict("name" :> Str("Join"))
PlansLeaf == BNode("Sort", <<>>)
PlanLeaf == PNode("Limit", <<>>)

WalkNames == { Absent, Null, Str(""), Str("Output"), List(<<Str("Output")>>) }
WalkParams == { Absent, Null, Dict(<<>>), Dict("op_name" :> Str("")),
                Dict("op_name" :> Str("Foo")) }
WalkNodeTypes == { Absent, Str(""), Str("Filter") }
WalkPgTypes == { Absent, Str("Aggregate") }
WalkChildren == { Absent, Null, List(<<ChildLeaf>>) }
WalkPlans == { Absent, List(<<PlansLeaf>>) }
WalkPlan == { Absent, PlanLeaf, List(<<PlanLeaf>>), Str("Limit") }

WalkNodes ==
    { WNode(name, pp, nt, pg, kids, plans, plan) :
        name \in WalkNames, pp \in WalkParams, nt \in WalkNodeTypes, pg \in WalkPgTypes,
        kids \in WalkChildren, plans \in WalkPlans, plan \in WalkPlan }

\* plan nodes of the three dialects, and a node that names no operator
DocNodes ==
    { ANode("Output", Absent, Absent, <<ANode("Filter", Absent, Absent, <<>>)>>),
      BNode("Sort", <<BNode("Filter", <<>>)>>),
      PNode("Foo", <<>>),
      Dict("children" :> List(<<PNode("Limit", <<>>)>>)) }

\* a node whose name cannot be a member of a set
UnhashableName == Dict("name" :> List(<<Str("Output")>>))

\* a bundle as the execution harness writes it
Bundle(entries) ==
    Dict(("catalog" :> Str("acc")) @@ ("schema" :> Str("public"))
         @@ ("valid_queries" :> entries))

\* a plan of two fragments
Fragments(n, m) == Dict(("0" :> n) @@ ("1" :> m))

WalkDocuments ==
    WalkNodes \cup DocNodes
    \cup { Dict("0" :> n) : n \in DocNodes }
    \cup { Fragments(n, m) : n \in DocNodes, m \in DocNodes }
    \cup { List(<<n, m>>) : n \in DocNodes, m \in DocNodes }
    \cup { Bundle(List(<<Query(Dict("0" :> n), Num(1500), "a.sql", 1),
                         Query(p, Num(20), "a.sql", 2)>>)) :
             n \in DocNodes, p \in DocNodes \cup {Null, Absent} }
    \* a fragment mapping below a node
    \cup { ANode("Output", Absent, Absent, <<Fragments(n, m)>>) :
             n \in DocNodes, m \in DocNodes }
    \cup { Dict(("name" :> Str("Output")) @@ ("plan" :> Dict("0" :> n))) : n \in DocNodes }
    \* a bundle below the top of the document
    \cup { List(<<Bundle(List(<<Query(n, Num(1500), "a.sql", 1)>>))>>) : n \in DocNodes }
    \cup { Dict("0" :> Bundle(List(<<Query(n, Num(1500), "a.sql", 1)>>))) : n \in DocNodes }
    \* mappings keyed by something other than digit strings
    \cup { Dict("stage" :> n) : n \in DocNodes }
    \cup { Dict(("0" :> n) @@ ("stage" :> m)) : n \in DocNodes, m \in DocNodes }
    \* the same mappings with their keys written in another order
    \cup { DictInOrder(("0" :> n) @@ ("1" :> m), <<"1", "0">>) :
             n \in DocNodes \cup {UnhashableName}, m \in DocNodes \cup {UnhashableName} }
    \cup { DictInOrder(("0" :> n) @@ ("stage" :> m), <<"stage", "0">>) :
             n \in DocNodes, m \in DocNodes }
    \cup { DictInOrder(("name" :> Str("Output")) @@ ("children" :> List(<<n>>)),
                       <<"children", "name">>) : n \in DocNodes }
    \* a fragment that raises beside one that does not
    \cup { Fragments(n, m) : n \in DocNodes \cup {UnhashableName}, m \in {UnhashableName} }
    \* children given as a mapping: its keys are the children
    \cup { Dict(("name" :> Str("Output")) @@ ("children" :> dd)) :
             dd \in { Fragments(n, n) : n \in DocNodes } \cup
                    { DictInOrder(("name" :> Str("Join")) @@ ("children" :> List(<<>>)),
                                  <<"children", "name">>) } }
    \* keys that are digits outside ASCII
    \cup { Dict(k :> n) : k \in {"U+00B2", "U+0663"}, n \in DocNodes }
    \cup { Dict(("0" :> n) @@ ("U+00B2" :> m)) : n \in DocNodes, m \in DocNodes }
    \* names that are equal without being the same value
    \cup { List(<<Dict("name" :> a), Dict("name" :> b)>>) :
             a \in {Num(1), Bool(TRUE), Str("Output")}, b \in {Num(1), Bool(TRUE)} }
    \* names that are 0 or false, alone and before another identifier
    \cup { List(<<Dict(("name" :> a) @@ ("nodeType" :> b)), n>>) :
             a \in {Num(0), Bool(FALSE)}, b \in {Null, Str("Filter")}, n \in DocNodes }
    \* documents that are no plan, and bundles whose list is none
    \cup { Null, Num(1), Str("Output"), List(<<>>), Dict(<<>>),
           Bundle(List(<<>>)), Bundle(List(<<Null>>)), Bundle(Num(1)), Bundle(Null),
           Bundle(Dict(<<>>)), Bundle(Str("")), Bundle(Str("Output")) }
    \cup { Bundle(Dict("0" :> Query(n, Num(1500), "a.sql", 1))) : n \in DocNodes }

\* the dicts on which the naming chain of recurse runs (line 60), in call
\* order, on the accumulator [raised, nodes]: the walk ends where recurse
\* raises, the node it raised on being the last
RECURSIVE visited(_, _), visited_each(_, _)
visited(node, acc) ==
    IF acc.raised THEN acc
    ELSE IF node.t = "dict" THEN
        IF DOMAIN node.d # {} /\ \A k \in DOMAIN node.d : IsDigit(k)
        THEN visited_each(DictValues(node), acc)
        ELSE IF OpOf(node).raised \/ (Truthy(OpOf(node).op) /\ Unhashable(OpOf(node).op))
                \/ ChildrenOf(node).raised
             THEN [raised |-> TRUE, nodes |-> Append(acc.nodes, node)]
             ELSE visited_each(ChildrenOf(node).items,
                               [acc EXCEPT !.nodes = Append(@, node)])
    ELSE IF node.t = "list" THEN visited_each(node.l, acc)
    ELSE acc
visited_each(nodes, acc) ==
    IF nodes = <<>> THEN acc
    ELSE visited_each(Tail(nodes), visited(Head(nodes), acc))

\* the same for the walk over one loaded document (lines 38-46)
RECURSIVE visited_entries(_, _)
visited_entries(entries, acc) ==
    IF acc.raised \/ entries = <<>> THEN acc
    ELSE IF Head(entries).t # "dict" THEN Raise(acc)
    ELSE visited_entries(Tail(entries),
                         IF Get(Head(entries), "plan", Null) # Null
                         THEN visited(Get(Head(entries), "plan", Null), acc) ELSE acc)
collect_visited(data) ==
    IF data.t = "dict" /\ "valid_queries" \in DOMAIN data.d
    THEN (IF Iterate(data.d["valid_queries"]).ok
          THEN visited_entries(Iterate(data.d["valid_queries"]).items,
                               [raised |-> FALSE, nodes |-> <<>>]).nodes
          ELSE <<>>)
    ELSE visited(data, [raised |-> FALSE, nodes |-> <<>>]).nodes

InitWalk ==
    /\ pc = "document"
    /\ plan_json \in WalkDocuments
    /\ op_idx_dict = <<>>
    /\ enc_out = NoOut
    /\ ScanIdle
    /\ AsmIdle
    /\ SplitIdle

\* lines 51-82 on the document as it is
Recurse ==
    /\ pc = "document"
    /\ \E r \in { recurse(plan_json, [raised |-> FALSE, ops |-> {}]) } :
          /\ ops' = r.ops
          /\ pc' = IF r.raised THEN "recurse_raised" ELSE "recursed"
    /\ UNCHANGED <<op_idx_dict, encVars, corpus, walk_todo, files, log, asmVars, splitVars>>

\* lines 37-46: the bundle wrapper of the document, then recurse
CollectDocument ==
    /\ pc = "document"
    /\ \E r \in { collect_data(plan_json, [raised |-> FALSE, ops |-> {}]) } :
          /\ ops' = r.ops
          /\ pc' = IF r.raised THEN "collect_raised" ELSE "collected"
    /\ UNCHANGED <<op_idx_dict, encVars, corpus, walk_todo, files, log, asmVars, splitVars>>

NextWalk == Recurse \/ CollectDocument

SpecWalk == InitWalk /\ [][NextWalk]_vars

(***************************************************************************)
(* extract_feature_flat.py: build_multi_dataset_df                         *)
(***************************************************************************)
\* a number of seconds as a fraction num/den, den > 0
Frac(n, d) == [num |-> n, den |-> d]
Positive(r) == r.num > 0
NaN == [t |-> "nan"]

\* the files the dataset sources name ------------------------------------
\* os.listdir(plan_dir)
ListDir(dir) ==
    CASE dir = "tpch_plans" -> {"q1_a.json", "q2_b.json", "readme.txt"}
      [] dir = "job_plans"  -> {"q2_b.json", "q3.json"}
      [] dir = "ssb_plans"  -> {"q2_b.json"}

\* json.load of a plan file
PlanFile(dir, fname) ==
    CASE fname = "q1_a.json" -> ExamplePlan
      [] fname = "q2_b.json" ->
           Dict("0" :> ANode("Foo", Num(100), Absent,
                             <<ANode("Filter", Num(40), Absent, <<>>)>>))
      [] OTHER -> Dict("0" :> ANode("Output", Num(100), Absent, <<>>))

\* pd.read_csv(labels_csv): rows of filename, wall_time_secs
ReadCsv(path) ==
    CASE path = "tpch.csv" ->
           << [filename |-> "q1.sql", wall_time_secs |-> Frac(5, 2)],
              [filename |-> "q2.sql", wall_time_secs |-> Frac(0, 1)],
              [filename |-> "q1.sql", wall_time_secs |-> Frac(9, 1)] >>
      [] path = "job.csv" ->
           << [filename |-> "q2.sql", wall_time_secs |-> Frac(1, 4)],
              [filename |-> "q3.sql\n", wall_time_secs |-> Frac(3, 1)] >>

\* json.load of a result file
ResultFile(path) ==
    CASE path = "acc.json" ->
           Dict("valid_queries" :> List(<<
               Query(ExamplePlan, Num(1500), "a.sql", 1),
               Query(PlanFile("", "q2_b.json"), Num(0), "a.sql", 2),
               Query(PlanFile("", "q3.json"), Absent, "b.sql", 1)>>))
      [] path = "air.json" ->
           Dict("valid_queries" :> List(<<
               Query(PlanFile("", "q2_b.json"), Num(-5), "a.sql", 1),
               Query(ExamplePlan, Num(20), "b.sql", 1)>>))
      \* entries without a file or a stmt_no beside entries that have them
      [] path = "nul.json" ->
           Dict("valid_queries" :> List(<<
               Dict(("plan" :> ExamplePlan) @@ ("runtime_ms" :> Num(30))
                    @@ ("file" :> Str("a.sql"))),
               Dict(("plan" :> ExamplePlan) @@ ("runtime_ms" :> Num(40))),
               Query(PlanFile("", "q3.json"), Num(20), "b.sql", 2),
               Query(PlanFile("", "q3.json"), Num(0), "b.sql", 3)>>))
      \* no entry has a stmt_no
      [] path = "non.json" ->
           Dict("valid_queries" :> List(<<
               Dict(("plan" :> ExamplePlan) @@ ("runtime_ms" :> Num(30))
                    @@ ("file" :> Str("a.sql"))),
               Dict(("plan" :> PlanFile("", "q3.json")) @@ ("runtime_ms" :> Num(40))
                    @@ ("file" :> Str("b.sql")))>>))
      [] path = "empty.json" -> Dict("valid_queries" :> List(<<>>))

ModeAConfigs ==
    { ("name" :> n) @@ ("plan_dir" :> n \o "_plans") @@ ("labels_csv" :> c) :
        n \in {"tpch", "job", "ssb"}, c \in {"tpch.csv", "job.csv"} }
ModeBConfigs ==
    { ("name" :> "acc") @@ ("result_file" :> "acc.json"),
      ("name" :> "air") @@ ("result_file" :> "air.json"),
      ("name" :> "nul") @@ ("result_file" :> "nul.json"),
      ("name" :> "non") @@ ("result_file" :> "non.json"),
      ("name" :> "empty") @@ ("result_file" :> "empty.json") }
MalformedConfigs ==
    { ("name" :> "bad"),
      ("name" :> "half") @@ ("plan_dir" :> "tpch_plans") }
ConfigPool == ModeAConfigs \cup ModeBConfigs \cup MalformedConfigs

\* the vocabulary files the encoder module may have loaded
AsmVocabularies ==
    { ("Filter" :> 0) @@ ("Output" :> 1),
      ("Filter" :> 0) @@ ("Foo" :> 1) @@ ("Output" :> 2),
      ExampleVocabulary }

\* the code ---------------------------------------------------------------
IsModeA(cfg) == "plan_dir" \in DOMAIN cfg /\ "labels_csv" \in DOMAIN cfg
IsModeB(cfg) == ~IsModeA(cfg) /\ "result_file" \in DOMAIN cfg

\* fname.split('_', 1)[0], on code points
RECURSIVE BeforeUnderscore(_)
BeforeUnderscore(cs) ==
    IF cs = <<>> \/ Head(cs) = 95 THEN <<>>
    ELSE <<Head(cs)>> \o BeforeUnderscore(Tail(cs))

\* str.replace(r'\.sql$', '', regex=True), on code points: `$` matches at
\* the end of the string and before a newline that ends it
StripSql(cs) ==
    IF EndsWith(cs, <<46, 115, 113, 108>>) THEN SubSeq(cs, 1, Len(cs) - 4)
    ELSE IF EndsWith(cs, <<46, 115, 113, 108, 10>>)
         THEN SubSeq(cs, 1, Len(cs) - 5) \o <<10>>
    ELSE cs

\* labels[['key', 'wall_time_secs']] renamed to key, runtime
read_labels(path) ==
    LET t == ReadCsv(path)
    IN [i \in 1..Len(t) |-> [key |-> StripSql(CodePoints[t[i].filename]),
                             runtime |-> t[i].wall_time_secs]]

\* a plausible slip: a default when no row matches
lookup_runtime_default(tbl, key) ==
    LET hits == SelectSeq(tbl, LAMBDA r : r.key = key)
    IN IF hits = <<>> THEN [ok |-> TRUE, val |-> Frac(0, 1)]
       ELSE [ok |-> TRUE, val |-> hits[1].runtime]

\* labels.loc[labels['key'] == key, 'runtime'].values[0]: IndexError on a miss
lookup_runtime(tbl, key) ==
    LET hits == SelectSeq(tbl, LAMBDA r : r.key = key)
    IN IF hits = <<>> THEN [ok |-> FALSE, val |-> Frac(0, 1)]
       ELSE [ok |-> TRUE, val |-> hits[1].runtime]

\* one iteration of the Mode A loop, on [feats_list, metas, err]
plan_file_step(name, dir, tbl, fname, st) ==
    IF ~EndsWith(CodePoints[fname], CodePoints[".json"]) THEN st
    ELSE LET key == BeforeUnderscore(CodePoints[fname])
             enc == extract_flat_vector(PlanFile(dir, fname))
             l == lookup_runtime(tbl, key)
         IN IF enc.raised THEN [st EXCEPT !.err = "encode"]
            ELSE IF ~l.ok
                 THEN [st EXCEPT !.feats_list = Append(@, enc.vec),
                                 !.err = "IndexError"]
            ELSE [st EXCEPT !.feats_list = Append(@, enc.vec),
                            !.metas = Append(@, [runtime |-> l.val,
                                                 dataset_id |-> name])]

\* one iteration of the Mode B loop, on [feats_list, metas, err]
query_step(name, q, st) ==
    IF q.t # "dict" \/ "plan" \notin DOMAIN q.d THEN [st EXCEPT !.err = "query"]
    ELSE LET enc == extract_flat_vector(q.d["plan"])
             ms == PyFloat(Get(q, "runtime_ms", Num(0)))
         IN IF enc.raised THEN [st EXCEPT !.err = "encode"]
            ELSE IF ~ms.ok
                 THEN [st EXCEPT !.feats_list = Append(@, enc.vec),
                                 !.err = "runtime_ms"]
            ELSE [st EXCEPT !.feats_list = Append(@, enc.vec),
                            !.metas = Append(@, [runtime |-> Frac(ms.val, 1000),
                                                 file |-> Get(q, "file", Null),
                                                 stmt_no |-> Get(q, "stmt_no", Null),
                                                 dataset_id |-> name])]

\* a plausible slip: a descriptor of neither mode is passed over
reject_skip(i) == [pc |-> "loop", err |-> "none", cfg_i |-> i + 1]

\* raise ValueError(...) in the else branch
reject(i) == [pc |-> "raised", err |-> "ValueError", cfg_i |-> i]

count_cols == [i \in 1..no_ops |-> op_list[i] \o "_count"]
card_cols == [i \in 1..no_ops |-> op_list[i] \o "_cardSum"]

\* the columns of pd.DataFrame(metas): the keys of the records in order of
\* first appearance (within one record, in the order the dict literal has)
meta_cols(ms) ==
    LET order == <<"runtime", "file", "stmt_no", "dataset_id">>
        present == { k \in { order[i] : i \in 1..Len(order) } :
                       \E j \in 1..Len(ms) : k \in DOMAIN ms[j] }
        first(k) == CHOOSE j \in 1..Len(ms) :
                        k \in DOMAIN ms[j] /\ \A h \in 1..(j - 1) : k \notin DOMAIN ms[h]
        pos(k) == CHOOSE i \in 1..Len(order) : order[i] = k
        before(a, c) == \/ first(a) < first(c)
                        \/ first(a) = first(c) /\ pos(a) < pos(c)
    IN [i \in 1..Cardinality(present) |->
          CHOOSE k \in present : Cardinality({ a \in present : before(a, k) }) = i - 1]

\* a plausible slip: rows with runtime 0 pass the filter
runtime_filter_nonneg(rows) == SelectSeq(rows, LAMBDA r : r["runtime"].num >= 0)

\* df[df['runtime'] > 0.0].reset_index(drop=True)
runtime_filter(rows) == SelectSeq(rows, LAMBDA r : Positive(r["runtime"]))

\* pd.DataFrame(metas) infers a type per column.  A column of file or
\* stmt_no whose values are numbers and None, with a number or a missing key
\* among them, is a float column; any other column keeps its objects.
FloatColumn(ms, c) ==
    /\ \A k \in 1..Len(ms) : c \in DOMAIN ms[k] => ms[k][c].t \in {"num", "null"}
    /\ \E k \in 1..Len(ms) : c \notin DOMAIN ms[k] \/ ms[k][c].t = "num"

\* the cell of record k in meta column c: NaN for a missing key, and for
\* None in a float column
meta_cell(ms, k, c) ==
    IF c \notin DOMAIN ms[k] THEN NaN
    ELSE IF c \in {"file", "stmt_no"} /\ ms[k][c] = Null /\ FloatColumn(ms, c) THEN NaN
    ELSE ms[k][c]

\* lines 110-122: the table of all records, then the runtime filter
make_table(X, ms) ==
    LET fcols == count_cols \o card_cols
        mcols == meta_cols(ms)
        row(k) == [c \in { fcols[i] : i \in 1..Len(fcols) }
                          \cup { mcols[i] : i \in 1..Len(mcols) } |->
                     IF \E i \in 1..Len(fcols) : fcols[i] = c
                     THEN X[k][CHOOSE i \in 1..Len(fcols) : fcols[i] = c]
                     ELSE meta_cell(ms, k, c)]
    IN [columns |-> fcols \o mcols,
        rows |-> runtime_filter([k \in 1..Len(X) |-> row(k)])]

ConfigLists == SeqsUpTo(ConfigPool, MaxSources)

InitAsm ==
    /\ pc = "loop"
    /\ op_idx_dict \in AsmVocabularies
    /\ dataset_configs \in ConfigLists
    /\ cfg_i = 1
    /\ todo = <<>>
    /\ labels = <<>>
    /\ feats_list = <<>>
    /\ metas = <<>>
    /\ reads = {}
    /\ err = "none"
    /\ df = NoTable
    /\ plan_json = Dict(<<>>)
    /\ enc_out = NoOut
    /\ ScanIdle
    /\ SplitIdle

AtSource == pc = "loop" /\ cfg_i <= Len(dataset_configs)

\* lines 77-82: read the label table, list the plan directory
BeginModeA ==
    /\ AtSource
    /\ IsModeA(dataset_configs[cfg_i])
    /\ labels' = read_labels(dataset_configs[cfg_i]["labels_csv"])
    /\ todo' = Sorted(ListDir(dataset_configs[cfg_i]["plan_dir"]))
    /\ reads' = reads \cup {cfg_i}
    /\ pc' = "modeA"
    /\ UNCHANGED <<op_idx_dict, dataset_configs, cfg_i, feats_list, metas, err, df,
                   encVars, scanVars, splitVars>>

\* lines 95-97: load the result file
BeginModeB ==
    /\ AtSource
    /\ IsModeB(dataset_configs[cfg_i])
    /\ LET q == Iterate(Get(ResultFile(dataset_configs[cfg_i]["result_file"]),
                            "valid_queries", List(<<>>)))
       IN /\ todo' = q.items
          /\ pc' = IF q.ok THEN "modeB" ELSE "raised"
          /\ err' = IF q.ok THEN err ELSE "TypeError"
    /\ reads' = reads \cup {cfg_i}
    /\ UNCHANGED <<op_idx_dict, dataset_configs, cfg_i, labels, feats_list, metas, df,
                   encVars, scanVars, splitVars>>

\* lines 107-108
RejectConfig ==
    /\ AtSource
    /\ ~IsModeA(dataset_configs[cfg_i])
    /\ ~IsModeB(dataset_configs[cfg_i])
    /\ LET r == reject(cfg_i)
       IN pc' = r.pc /\ err' = r.err /\ cfg_i' = r.cfg_i
    /\ UNCHANGED <<op_idx_dict, dataset_configs, todo, labels, feats_list, metas, reads,
                   df, encVars, scanVars, splitVars>>

\* lines 82-92: the next file of the plan directory
PlanFileStep ==
    /\ pc = "modeA"
    /\ todo # <<>>
    /\ \E r \in { plan_file_step(dataset_configs[cfg_i]["name"],
                                  dataset_configs[cfg_i]["plan_dir"], labels, Head(todo),
                                  [feats_list |-> feats_list, metas |-> metas,
                                   err |-> err]) } :
          /\ feats_list' = r.feats_list
          /\ metas' = r.metas
          /\ err' = r.err
          /\ pc' = IF r.err = "none" THEN "modeA" ELSE "raised"
          /\ todo' = IF r.err = "none" THEN Tail(todo) ELSE todo
    /\ UNCHANGED <<op_idx_dict, dataset_configs, cfg_i, labels, reads, df,
                   encVars, scanVars, splitVars>>

\* lines 97-105: the next query of the bundle
QueryStep ==
    /\ pc = "modeB"
    /\ todo # <<>>
    /\ \E r \in { query_step(dataset_configs[cfg_i]["name"], Head(todo),
                              [feats_list |-> feats_list, metas |-> metas, err |-> err]) } :
          /\ feats_list' = r.feats_list
          /\ metas' = r.metas
          /\ err' = r.err
          /\ pc' = IF r.err = "none" THEN "modeB" ELSE "raised"
          /\ todo' = IF r.err = "none" THEN Tail(todo) ELSE todo
    /\ UNCHANGED <<op_idx_dict, dataset_configs, cfg_i, labels, reads, df,
                   encVars, scanVars, splitVars>>

\* the inner loop is exhausted: on to the next descriptor
EndSource ==
    /\ pc \in {"modeA", "modeB"}
    /\ todo = <<>>
    /\ cfg_i' = cfg_i + 1
    /\ labels' = <<>>
    /\ pc' = "loop"
    /\ UNCHANGED <<op_idx_dict, dataset_configs, todo, feats_list, metas, reads, err, df,
                   encVars, scanVars, splitVars>>

\* lines 110-122; np.stack raises on an empty list
Finish ==
    /\ pc = "loop"
    /\ cfg_i > Len(dataset_configs)
    /\ IF feats_list = <<>>
       THEN pc' = "raised" /\ err' = "ValueError: stack" /\ df' = df
       ELSE pc' = "returned" /\ err' = err /\ df' = make_table(feats_list, metas)
    /\ UNCHANGED <<op_idx_dict, dataset_configs, cfg_i, todo, labels, feats_list, metas,
                   reads, encVars, scanVars, splitVars>>

NextAsm ==
    \/ BeginModeA
    \/ BeginModeB
    \/ RejectConfig
    \/ PlanFileStep
    \/ QueryStep
    \/ EndSource
    \/ Finish

SpecAsm == InitAsm /\ [][NextAsm]_vars


(***************************************************************************)
(* model/flat_vector.py: one leave-one-out round of main.  The three       *)
(* tables are built, their feature tables split off, and the feature       *)
(* tables aligned to the union of their columns.                           *)
(***************************************************************************)
MaxRows == 2          \* most rows of a table of the split

\* the column labels of a table
Columns(t) == { t.columns[i] : i \in 1..Len(t.columns) }

\* meta_cols, with runtime: what main drops from every table
MetaLabels == {"runtime", "file", "stmt_no", "dataset_id"}

\* feature columns as build_multi_dataset_df names them, for three vocabularies
FeatureLayouts ==
    { <<"Filter_count", "Output_count", "Filter_cardSum", "Output_cardSum">>,
      <<"Foo_count", "Output_count", "Foo_cardSum", "Output_cardSum">>,
      <<"Filter_count", "Filter_cardSum">> }

\* the columns pd.DataFrame(metas) gives Mode B records, and Mode A records
\* (a plan_dir source), which carry neither file nor stmt_no
ModeBMetas == <<"runtime", "file", "stmt_no", "dataset_id">>
ModeAMetas == <<"runtime", "dataset_id">>

\* a table of n records over a feature layout and the columns of their
\* metas; the cell of row k in the i-th feature column is 10k + i
SplitTable(layout, metas_, n) ==
    [columns |-> layout \o metas_,
     rows |-> [k \in 1..n |->
                 [c \in { layout[i] : i \in 1..Len(layout) }
                        \cup { metas_[i] : i \in 1..Len(metas_) } |->
                    CASE c = "runtime" -> Frac(k, 1)
                      [] c = "file" -> Str("a.sql")
                      [] c = "stmt_no" -> Num(k)
                      [] c = "dataset_id" -> "acc"
                      [] OTHER -> 10 * k + (CHOOSE i \in 1..Len(layout) : layout[i] = c)]]]

SplitTables ==
    { SplitTable(l, ModeBMetas, n) : l \in FeatureLayouts, n \in 0..MaxRows }
    \cup { SplitTable(<<"Filter_count", "Filter_cardSum">>, ModeAMetas, n) : n \in 0..MaxRows }

\* df.drop(columns=labels): KeyError when a label is not a column
drop(t, labels_) ==
    IF ~(labels_ \subseteq Columns(t)) THEN [ok |-> FALSE, table |-> NoTable]
    ELSE [ok |-> TRUE,
          table |-> [columns |-> SelectSeq(t.columns, LAMBDA c : c \notin labels_),
                     rows |-> [k \in 1..Len(t.rows) |->
                                 [c \in Columns(t) \ labels_ |-> t.rows[k][c]]]]]

\* Index.union(other): self when other is empty or equal to it, other when
\* self is empty, otherwise the distinct labels of both, sorted
union(a, b) ==
    IF b = <<>> \/ a = b THEN a
    ELSE IF a = <<>> THEN b
    ELSE Sorted({ a[i] : i \in 1..Len(a) } \cup { b[i] : i \in 1..Len(b) })

\* a plausible slip: cells are carried over by position, not by label
reindex_by_position(t, cols) ==
    [columns |-> cols,
     rows |-> [k \in 1..Len(t.rows) |->
                 [c \in { cols[i] : i \in 1..Len(cols) } |->
                    LET i == CHOOSE j \in 1..Len(cols) : cols[j] = c
                    IN IF i <= Len(t.columns) THEN t.rows[k][t.columns[i]] ELSE 0]]]

\* X.reindex(columns=cols, fill_value=0)
reindex(t, cols) ==
    [columns |-> cols,
     rows |-> [k \in 1..Len(t.rows) |->
                 [c \in { cols[i] : i \in 1..Len(cols) } |->
                    IF c \in Columns(t) THEN t.rows[k][c] ELSE 0]]]

InitSplit ==
    /\ pc = "built"
    /\ df_train \in SplitTables
    /\ df_valid \in SplitTables
    /\ df_test \in SplitTables
    /\ X_train = NoTable
    /\ X_valid = NoTable
    /\ X_test = NoTable
    /\ all_cols = <<>>
    /\ op_idx_dict = <<>>
    /\ plan_json = Dict(<<>>)
    /\ enc_out = NoOut
    /\ ScanIdle
    /\ AsmIdle

\* lines 88-94: the feature tables, one drop after the other; the first
\* KeyError ends main, with the tables assigned before it in place
SplitFeatures ==
    /\ pc = "built"
    /\ \E a \in {drop(df_train, MetaLabels)}, b \in {drop(df_valid, MetaLabels)},
          c \in {drop(df_test, MetaLabels)} :
          /\ X_train' = IF a.ok THEN a.table ELSE X_train
          /\ X_valid' = IF a.ok /\ b.ok THEN b.table ELSE X_valid
          /\ X_test' = IF a.ok /\ b.ok /\ c.ok THEN c.table ELSE X_test
          /\ pc' = IF a.ok /\ b.ok /\ c.ok THEN "split" ELSE "drop_raised"
    /\ UNCHANGED <<op_idx_dict, encVars, scanVars, asmVars,
                   df_train, df_valid, df_test, all_cols>>

\* lines 97-101: the union of the feature columns
UnionColumns ==
    /\ pc = "split"
    /\ all_cols' = union(union(X_train.columns, X_valid.columns), X_test.columns)
    /\ pc' = "united"
    /\ UNCHANGED <<op_idx_dict, encVars, scanVars, asmVars,
                   df_train, df_valid, df_test, X_train, X_valid, X_test>>

\* lines 104-106: every feature table on the union, zero-filled
Reindex ==
    /\ pc = "united"
    /\ X_train' = reindex(X_train, all_cols)
    /\ X_valid' = reindex(X_valid, all_cols)
    /\ X_test' = reindex(X_test, all_cols)
    /\ pc' = "aligned"
    /\ UNCHANGED <<op_idx_dict, encVars, scanVars, asmVars,
                   df_train, df_valid, df_test, all_cols>>

NextSplit == SplitFeatures \/ UnionColumns \/ Reindex

SpecSplit == InitSplit /\ [][NextSplit]_vars


(***************************************************************************)
(* The pipeline: the builder scans a corpus and writes the vocabulary      *)
(* file, extract_feature_flat is imported and loads it, and                *)
(* build_multi_dataset_df assembles a table with it.                       *)
(***************************************************************************)
MaxPipeFiles == 2     \* most files in the corpus of a pipeline run

\* corpora of plan files that are all read
PipeCorpora ==
    { c \in SUBSET { f \in Walked(FilePool) : f.content # Unreadable } :
        Cardinality(c) <= MaxPipeFiles }

PipeConfigs ==
    { ("name" :> "tpch") @@ ("plan_dir" :> "tpch_plans") @@ ("labels_csv" :> "tpch.csv"),
      ("name" :> "ssb") @@ ("plan_dir" :> "ssb_plans") @@ ("labels_csv" :> "job.csv"),
      ("name" :> "acc") @@ ("result_file" :> "acc.json"),
      ("name" :> "air") @@ ("result_file" :> "air.json"),
      ("name" :> "nul") @@ ("result_file" :> "nul.json"),
      ("name" :> "bad") }
PipeConfigLists == SeqsUpTo(PipeConfigs, MaxSources)

\* json.dump(op_idx_dict, f): the "key": value members in insertion order,
\* which is the order of the indices
json_dump(d) ==
    [i \in 1..Cardinality(DOMAIN d) |->
       LET k == CHOOSE x \in DOMAIN d : d[x] = i - 1 IN <<k, d[k]>>]

\* json.load(f): the dict of the members, a repeated key keeping its last value
json_load(members) ==
    [k \in { members[i][1] : i \in 1..Len(members) } |->
       members[CHOOSE i \in 1..Len(members) :
                  /\ members[i][1] = k
                  /\ \A j \in (i + 1)..Len(members) : members[j][1] # k][2]]

InitPipe ==
    /\ pc = "scanning"
    /\ corpus \in PipeCorpora
    /\ walk_todo = Walked(corpus)
    /\ ops = {}
    /\ files = <<>>
    /\ log = <<>>
    /\ op_idx_dict = <<>>
    /\ plan_json = Dict(<<>>)
    /\ enc_out = NoOut
    /\ AsmIdle
    /\ SplitIdle

\* extract_feature_flat.py lines 9-16: the import loads the file main wrote
LoadVocabulary ==
    /\ pc = "written"
    /\ op_idx_dict' = json_load(json_dump(op_idx_dict))
    /\ pc' = "imported"
    /\ UNCHANGED <<encVars, scanVars, asmVars, splitVars>>

\* build_multi_dataset_df(dataset_configs) is called
CallBuild ==
    /\ pc = "imported"
    /\ dataset_configs' \in PipeConfigLists
    /\ pc' = "loop"
    /\ UNCHANGED <<op_idx_dict, encVars, scanVars, cfg_i, todo, labels, feats_list,
                   metas, reads, err, df, splitVars>>

NextPipe == ScanFile \/ WriteDict \/ LoadVocabulary \/ CallBuild \/ NextAsm

SpecPipe == InitPipe /\ [][NextPipe]_vars

(***************************************************************************)
(* Properties of the encoder                                               *)
(***************************************************************************)
V == Cardinality(DOMAIN op_idx_dict)

RECURSIVE SumSeq(_)
SumSeq(s) == IF s = <<>> THEN 0 ELSE Head(s) + SumSeq(Tail(s))

\* the nodes of a plan reached from the fragment roots through `children`
RECURSIVE Flatten(_), FlattenEach(_)
Flatten(node) ==
    <<node>> \o (IF "children" \in DOMAIN node.d /\ node.d["children"].t = "list"
                 THEN FlattenEach(node.d["children"].l) ELSE <<>>)
FlattenEach(nodes) ==
    IF nodes = <<>> THEN <<>> ELSE Flatten(Head(nodes)) \o FlattenEach(Tail(nodes))
VisitedNodes(plan) == FlattenEach(DictValues(plan))

HasName(node) == "name" \in DOMAIN node.d /\ node.d["name"].t = "str"
InVocabulary(node) == HasName(node) /\ node.d["name"].s \in DOMAIN op_idx_dict
HasIndex(node, i) == InVocabulary(node) /\ op_idx_dict[node.d["name"].s] = i
EstimatesOf(node) == IF "estimates" \in DOMAIN node.d THEN node.d["estimates"].l ELSE <<>>

\* a plan of Engine-A nodes
IsAPlan(plan) == LET nodes == VisitedNodes(plan)
                 IN \A k \in 1..Len(nodes) : HasName(nodes[k])

\* Engine-A nodes whose cardinality fields, where present, are JSON numbers
NumericNode(node) ==
    /\ HasName(node)
    /\ "outputRowCount" \in DOMAIN node.d => node.d["outputRowCount"].t = "num"
    /\ \A k \in 1..Len(EstimatesOf(node)) :
         LET e == EstimatesOf(node)[k]
         IN "outputRowCount" \in DOMAIN e.d => e.d["outputRowCount"].t = "num"
NumericPlan(plan) == LET nodes == VisitedNodes(plan)
                     IN \A k \in 1..Len(nodes) : NumericNode(nodes[k])

\* direct outputRowCount plus the outputRowCount of every estimate record
NumericCard(node) ==
    (IF "outputRowCount" \in DOMAIN node.d THEN node.d["outputRowCount"].n ELSE 0)
    + SumSeq([k \in 1..Len(EstimatesOf(node)) |->
                LET e == EstimatesOf(node)[k]
                IN IF "outputRowCount" \in DOMAIN e.d THEN e.d["outputRowCount"].n ELSE 0])

\* the same, a missing or unparseable field counting 0
ParsedOrZero(v) == IF PyFloat(v).ok THEN PyFloat(v).val ELSE 0
TolerantCard(node) ==
    (IF "outputRowCount" \in DOMAIN node.d THEN ParsedOrZero(node.d["outputRowCount"]) ELSE 0)
    + SumSeq([k \in 1..Len(EstimatesOf(node)) |->
                LET e == EstimatesOf(node)[k]
                IN IF "outputRowCount" \in DOMAIN e.d
                   THEN ParsedOrZero(e.d["outputRowCount"]) ELSE 0])

\* over a node list: how many nodes have index i, and their summed cardinality
ExpectedCount(nodes, i) ==
    Cardinality({k \in 1..Len(nodes) : HasIndex(nodes[k], i)})
ExpectedNumericSum(nodes, i) ==
    SumSeq([k \in 1..Len(nodes) |->
              IF HasIndex(nodes[k], i) THEN NumericCard(nodes[k]) ELSE 0])
ExpectedTolerantSum(nodes, i) ==
    SumSeq([k \in 1..Len(nodes) |->
              IF HasIndex(nodes[k], i) THEN TolerantCard(nodes[k]) ELSE 0])


\* C1: for a plan of Engine-A nodes with numeric cardinalities the result is
\* [counts, cardSums]: counts[i] the number of visited nodes of index i,
\* cardSums[i] the sum over them of the direct outputRowCount and of the
\* outputRowCount of every estimate record.
C1_CountsAndCardSums ==
    (pc = "encoded" /\ NumericPlan(plan_json)) =>
        LET nodes == VisitedNodes(plan_json)
        IN /\ ~enc_out.raised
           /\ enc_out.vec = [i \in 1..(2 * V) |->
                               IF i <= V THEN ExpectedCount(nodes, i - 1)
                               ELSE ExpectedNumericSum(nodes, i - V - 1)]

C1_Witness ==
    /\ pc = "encoded"
    /\ plan_json = ExamplePlan
    /\ op_idx_dict = ExampleVocabulary
    /\ enc_out = [raised |-> FALSE, vec |-> <<1, 1, 100, 80>>]

\* the nodes of a plan document as the tree walker finds them (children,
\* Plans and nested plan), and the operators it names
RECURSIVE CountNodes(_), CountNodesEach(_)
CountNodes(node) ==
    IF node.t # "dict" THEN 0 ELSE 1 + CountNodesEach(ChildrenOf(node).items)
CountNodesEach(nodes) ==
    IF nodes = <<>> THEN 0 ELSE CountNodes(Head(nodes)) + CountNodesEach(Tail(nodes))
TotalNodes(plan) == CountNodesEach(DictValues(plan))
OperatorsOf(plan) == recurse(plan, [raised |-> FALSE, ops |-> {}]).ops
Covered(plan) ==
    \A o \in OperatorsOf(plan) : o.t = "str" /\ o.s \in DOMAIN op_idx_dict

\* C2: a plan tree of N nodes in any dialect, encoded with a vocabulary that
\* covers every operator in it, gives counts that sum to N.
C2_CountsSumToN ==
    (pc = "encoded" /\ Covered(plan_json)) =>
        /\ ~enc_out.raised
        /\ SumSeq(SubSeq(enc_out.vec, 1, V)) = TotalNodes(plan_json)

HasUnknown(plan) == LET nodes == VisitedNodes(plan)
                    IN \E k \in 1..Len(nodes) : ~InVocabulary(nodes[k])

\* C3: with a node whose operator is not in the vocabulary the call does not
\* raise, that node adds nothing, and every in-vocabulary node, below it or
\* elsewhere, is counted with its cardinalities.
C3_UnknownOperatorIgnored ==
    (pc = "encoded" /\ IsAPlan(plan_json) /\ HasUnknown(plan_json)) =>
        LET nodes == VisitedNodes(plan_json)
        IN /\ ~enc_out.raised
           /\ \A i \in 0..(V - 1) :
                /\ enc_out.vec[i + 1] = ExpectedCount(nodes, i)
                /\ enc_out.vec[V + i + 1] = ExpectedTolerantSum(nodes, i)

C3_Witness ==
    /\ pc = "encoded"
    /\ op_idx_dict = ("Filter" :> 0)
    /\ plan_json = Dict("0" :> ANode("Foo", Num(100), Absent,
                                     <<ANode("Filter", Num(100), Absent, <<>>)>>))
    /\ enc_out = [raised |-> FALSE, vec |-> <<1, 100>>]

\* a cardinality field of an in-vocabulary node that is missing or that
\* float() rejects
BadField(holder) ==
    \/ "outputRowCount" \notin DOMAIN holder.d
    \/ ~PyFloat(holder.d["outputRowCount"]).ok
HasBadCard(plan) ==
    LET nodes == VisitedNodes(plan)
    IN \E k \in 1..Len(nodes) :
          /\ InVocabulary(nodes[k])
          /\ \/ BadField(nodes[k])
             \/ \E j \in 1..Len(EstimatesOf(nodes[k])) :
                   BadField(EstimatesOf(nodes[k])[j])

\* C4: a missing or unparseable outputRowCount, of the node or of an
\* estimate record, adds 0 and never raises; counts and the other
\* contributions are as without it.
C4_BadCardinalityIsZero ==
    (pc = "encoded" /\ IsAPlan(plan_json) /\ HasBadCard(plan_json)) =>
        LET nodes == VisitedNodes(plan_json)
        IN enc_out = [raised |-> FALSE,
                      vec |-> [i \in 1..(2 * V) |->
                                 IF i <= V THEN ExpectedCount(nodes, i - 1)
                                 ELSE ExpectedTolerantSum(nodes, i - V - 1)]]

C4_Witness ==
    /\ pc = "encoded"
    /\ op_idx_dict = ("Filter" :> 0)
    /\ plan_json = Dict("0" :> ANode("Filter", Str("abc"),
                                     List(<<Dict("outputRowCount" :> Null),
                                            Dict("outputRowCount" :> Num(40))>>), <<>>))
    /\ enc_out = [raised |-> FALSE, vec |-> <<1, 40>>]

\* C5: the vector has length 2V whatever the plan holds.
C5_LengthIs2V ==
    pc = "encoded" => (~enc_out.raised /\ Len(enc_out.vec) = 2 * V)

C5_Witness ==
    /\ pc = "encoded"
    /\ V = 2
    /\ HasUnknown(plan_json)
    /\ Cardinality(DOMAIN plan_json.d) = 2
    /\ Len(VisitedNodes(plan_json)) >= 3
    /\ Len(enc_out.vec) = 4

(***************************************************************************)
(* Properties of the vocabulary builder                                    *)
(***************************************************************************)
IsJsonFile(f) == EndsWith(CodePoints[f.fname], CodePoints[".json"])
Readable(c) == { f \in Walked(c) : IsJsonFile(f) /\ f.content # Unreadable }
Broken(c) == { f \in Walked(c) : IsJsonFile(f) /\ f.content = Unreadable }

\* the operators of one file alone
FileOperators(f) == collect_data(f.content, [raised |-> FALSE, ops |-> {}]).ops
\* the operator strings of a corpus: a set, whatever the order of the walk
CorpusOperators(c) == { o.s : o \in UNION { FileOperators(f) : f \in Readable(c) } }

\* C6: the mapping depends only on the set of operators of the corpus: each
\* operator's index is its rank in the sorted set, the indices are 0..V-1,
\* and every order of visiting the files gives this same mapping.
C6_IndexIsRankInSortedSet ==
    pc = "written" =>
        LET S == CorpusOperators(corpus)
        IN /\ DOMAIN op_idx_dict = S
           /\ \A op \in S :
                op_idx_dict[op] = Cardinality({ o \in S : StrLess(o, op) })
           /\ { op_idx_dict[op] : op \in S } = 0..(Cardinality(S) - 1)

C6_Witness ==
    /\ pc = "written"
    /\ Len(files) >= 2
    /\ op_idx_dict = ("Filter" :> 0) @@ ("Foo" :> 1) @@ ("Output" :> 2)

SeqRange(q) == { q[i] : i \in 1..Len(q) }

\* C7: an unreadable file never aborts the scan: it is named in a warning,
\* it is not in `files`, the operators collected so far are kept, and every
\* other file is still processed.
C7_UnreadableFileSkipped ==
    pc \in {"scanning", "written", "scan_raised"} =>
        LET done == Walked(corpus) \ walk_todo
        IN /\ pc # "scan_raised"
           /\ SeqRange(files) = { PathOf(f) : f \in Readable(corpus) \cap done }
           /\ SeqRange(log) = { PathOf(f) : f \in Broken(corpus) \cap done }
           /\ ops = UNION { FileOperators(f) : f \in Readable(corpus) \cap done }
           /\ pc = "written" =>
                /\ SeqRange(files) = { PathOf(f) : f \in Readable(corpus) }
                /\ DOMAIN op_idx_dict = CorpusOperators(corpus)

C7_Witness ==
    /\ pc = "written"
    /\ Len(log) >= 1
    /\ Len(files) >= 2
    /\ files[Len(files)].fname # "q1_a.json"
    /\ Cardinality(DOMAIN op_idx_dict) >= 2

(***************************************************************************)
(* Properties of the dataset assembler                                     *)
(***************************************************************************)
JsonFiles(dir) == { f \in ListDir(dir) : EndsWith(CodePoints[f], CodePoints[".json"]) }
\* the rows of a label file whose key is the key of a plan file
LabelRows(csv, fname) ==
    SelectSeq(ReadCsv(csv), LAMBDA r :
        StripSql(CodePoints[r.filename]) = BeforeUnderscore(CodePoints[fname]))
HasLabel(csv, fname) == LabelRows(csv, fname) # <<>>
AllLabelled(cfg) ==
    \A f \in JsonFiles(cfg["plan_dir"]) : HasLabel(cfg["labels_csv"], f)

\* C8: in Mode A a plan file whose key has no label row makes the call
\* raise and return no table; no record is emitted for that file, and no
\* record ever carries a runtime other than its own label's.
C8_LabelMissRaises ==
    /\ \A i \in 1..Len(dataset_configs) :
         (IsModeA(dataset_configs[i]) /\ ~AllLabelled(dataset_configs[i])) =>
             /\ pc # "returned"
             /\ df = NoTable
             /\ cfg_i <= i
    /\ (pc = "raised" /\ err = "IndexError") =>
         /\ ~HasLabel(dataset_configs[cfg_i]["labels_csv"], Head(todo))
         /\ Len(metas) = Len(feats_list) - 1
    /\ \A k \in 1..Len(metas) :
         "file" \notin DOMAIN metas[k] =>
             \E i \in 1..Len(dataset_configs) :
                 /\ IsModeA(dataset_configs[i])
                 /\ dataset_configs[i]["name"] = metas[k].dataset_id
                 /\ \E f \in JsonFiles(dataset_configs[i]["plan_dir"]) :
                      /\ HasLabel(dataset_configs[i]["labels_csv"], f)
                      /\ metas[k].runtime =
                           LabelRows(dataset_configs[i]["labels_csv"], f)[1].wall_time_secs

C8_Witness ==
    /\ pc = "raised"
    /\ err = "IndexError"
    /\ Len(metas) >= 1
    /\ Len(feats_list) = Len(metas) + 1
    /\ df = NoTable

IsMalformed(cfg) == ~IsModeA(cfg) /\ ~IsModeB(cfg)
HasMalformed == \E i \in 1..Len(dataset_configs) : IsMalformed(dataset_configs[i])
FirstMalformed ==
    CHOOSE i \in 1..Len(dataset_configs) :
        /\ IsMalformed(dataset_configs[i])
        /\ \A j \in 1..(i - 1) : ~IsMalformed(dataset_configs[j])

\* C9 as stated: with a malformed descriptor in the list the call is
\* rejected before any source, the preceding ones included, is read or
\* encoded.
C9_RejectedBeforeProcessing ==
    HasMalformed => (reads = {} /\ feats_list = <<>>)

\* C9 as the code has it: with a malformed descriptor in the list the call
\* never returns a table; the ValueError is raised when the loop reaches the
\* descriptor, after every preceding source was read and encoded, and no
\* source at or after it is read.
C9_RejectedWhenReached ==
    HasMalformed =>
        /\ pc # "returned"
        /\ df = NoTable
        /\ cfg_i <= FirstMalformed
        /\ reads \subseteq 1..(FirstMalformed - 1)
        /\ cfg_i = FirstMalformed => pc \in {"loop", "raised"}
        /\ (pc = "raised" /\ cfg_i = FirstMalformed) =>
             /\ err = "ValueError"
             /\ reads = 1..(FirstMalformed - 1)

C9_Witness ==
    /\ pc = "raised"
    /\ err = "ValueError"
    /\ cfg_i = 2
    /\ reads = {1}
    /\ Len(metas) >= 2

\* the positions of the assembled records with runtime > 0, in order
KeptIndices ==
    SelectSeq([k \in 1..Len(metas) |-> k], LAMBDA k : Positive(metas[k].runtime))

QueriesOf(cfg) == Get(ResultFile(cfg["result_file"]), "valid_queries", List(<<>>)).l

\* a column of file or stmt_no is numeric when, over all assembled records,
\* its values are numbers, None or absent, one at least a number or absent
NumericColumn(c) ==
    /\ c \in {"file", "stmt_no"}
    /\ \A k \in 1..Len(metas) : c \in DOMAIN metas[k] => metas[k][c].t \in {"num", "null"}
    /\ \E k \in 1..Len(metas) : c \notin DOMAIN metas[k] \/ metas[k][c].t = "num"

\* the cell of a value v in column c: v itself, or NaN for None in a
\* numeric column
Unchanged(c, v) == v
NoneAsNaN(c, v) == IF NumericColumn(c) /\ v = Null THEN NaN ELSE v

\* the Mode B queries of the sources are in the table exactly when their
\* runtime_ms is there and positive
ModeBRowsFiltered(Cell(_, _)) ==
    \A i \in 1..Len(dataset_configs) :
        IsModeB(dataset_configs[i]) =>
            \A n \in 1..Len(QueriesOf(dataset_configs[i])) :
                LET q == QueriesOf(dataset_configs[i])[n]
                    inTable == \E j \in 1..Len(df.rows) :
                        /\ df.rows[j]["dataset_id"] = dataset_configs[i]["name"]
                        /\ df.rows[j]["file"] = Cell("file", Get(q, "file", Null))
                        /\ df.rows[j]["stmt_no"] = Cell("stmt_no", Get(q, "stmt_no", Null))
                IN inTable <=> ("runtime_ms" \in DOMAIN q.d
                                /\ q.d["runtime_ms"].n > 0)

\* the table is the records with runtime > 0, in order, with their
\* features and the cells of their metadata
RecordsRetained(Cell(_, _)) ==
    LET kept == KeptIndices
    IN /\ \A j \in 1..Len(df.rows) : Positive(df.rows[j]["runtime"])
       /\ Len(df.rows) = Len(kept)
       /\ \A j \in 1..Len(kept) :
            /\ \A i \in 1..(2 * V) :
                 df.rows[j][df.columns[i]] = feats_list[kept[j]][i]
            /\ \A c \in DOMAIN metas[kept[j]] :
                 df.rows[j][c] = Cell(c, metas[kept[j]][c])

FeatureLabels(t) == Columns(t) \ MetaLabels

\* table x carries exactly the feature cells of table d on the columns cols:
\* the cell of d where d has the column, 0 where it has not
AlignedTo(x, d, cols) ==
    /\ x.columns = cols
    /\ Len(x.rows) = Len(d.rows)
    /\ \A k \in 1..Len(x.rows) :
         /\ DOMAIN x.rows[k] = { cols[i] : i \in 1..Len(cols) }
         /\ \A c \in DOMAIN x.rows[k] :
              x.rows[k][c] = IF c \in FeatureLabels(d) THEN d.rows[k][c] ELSE 0

\* C11: after the union-reindex step the three feature tables have the same
\* column sequence, which lists each feature column of any of them once;
\* every table keeps, row by row, the values of the columns it had and has
\* 0 in every column it lacked.
C11_UnionReindex ==
    pc = "aligned" =>
        /\ { all_cols[i] : i \in 1..Len(all_cols) } =
             FeatureLabels(df_train) \cup FeatureLabels(df_valid) \cup FeatureLabels(df_test)
        /\ \A i, j \in 1..Len(all_cols) : all_cols[i] = all_cols[j] => i = j
        /\ AlignedTo(X_train, df_train, all_cols)
        /\ AlignedTo(X_valid, df_valid, all_cols)
        /\ AlignedTo(X_test, df_test, all_cols)

C11_Witness ==
    /\ pc = "aligned"
    /\ FeatureLabels(df_train) = {"Filter_count", "Filter_cardSum"}
    /\ "Foo_count" \in FeatureLabels(df_test)
    /\ Len(X_train.rows) = 2
    /\ X_train.rows[2]["Filter_cardSum"] = 22
    /\ X_train.rows[2]["Foo_count"] = 0
    /\ Len(X_test.rows) >= 1
    /\ X_test.rows[1]["Filter_count"] = 0
    /\ X_test.rows[1]["Foo_cardSum"] = 13

(***************************************************************************)
(* Properties of the plan tree walker                                      *)
(***************************************************************************)
FieldOr(node, k) == IF k \in DOMAIN node.d THEN node.d[k] ELSE Null

\* a value that is neither missing nor empty; 0 and false stand for no
\* value as the empty string does
NonEmpty(v) ==
    v \notin {Null, Str(""), List(<<>>), Dict(<<>>), Num(0), Bool(FALSE)}

\* plan_parameters.op_name
NestedName(node) ==
    IF FieldOr(node, "plan_parameters").t = "dict"
    THEN FieldOr(FieldOr(node, "plan_parameters"), "op_name") ELSE Null

\* the priority chain: name, plan_parameters.op_name, nodeType, Node Type
Chain(node) ==
    <<FieldOr(node, "name"), NestedName(node),
      FieldOr(node, "nodeType"), FieldOr(node, "Node Type")>>
HasIdentifier(node) == \E i \in 1..4 : NonEmpty(Chain(node)[i])
Identifier(node) ==
    Chain(node)[CHOOSE i \in 1..4 :
                    /\ NonEmpty(Chain(node)[i])
                    /\ \A j \in 1..(i - 1) : ~NonEmpty(Chain(node)[j])]
Identifiers(nodes) == { Identifier(n) : n \in { m \in nodes : HasIdentifier(m) } }

\* the elements of a list-valued field
Elements(node, k) ==
    IF FieldOr(node, k).t = "list"
    THEN { FieldOr(node, k).l[i] : i \in 1..Len(FieldOr(node, k).l) } ELSE {}

\* the children of a node: children list, Plans list, nested plan
ChildNodes(node) ==
    Elements(node, "children") \cup Elements(node, "Plans")
    \cup (IF FieldOr(node, "plan").t = "dict" THEN {FieldOr(node, "plan")}
          ELSE Elements(node, "plan"))

\* what the lookups of the walker need of a node: plan_parameters, when the
\* name is empty and it is consulted, is a mapping; the identifier found is
\* hashable; children and Plans, where present, can be iterated over (of a
\* mapping or a string that gives keys or characters, which are no nodes)
Walkable(node) ==
    /\ NonEmpty(FieldOr(node, "name")) \/ "plan_parameters" \notin DOMAIN node.d
          \/ node.d["plan_parameters"].t = "dict"
    /\ HasIdentifier(node) => Identifier(node).t \notin {"list", "dict"}
    /\ \A k \in {"children", "Plans"} :
          k \in DOMAIN node.d => node.d[k].t \in {"list", "dict", "str"}

\* C12: a visited node adds the first non-empty value of the chain name,
\* plan_parameters.op_name, nodeType, Node Type and nothing else of its own;
\* a node where none is non-empty adds nothing; either way every child in
\* children, Plans and plan is visited.  (A node whose lookups fail makes
\* the walk raise.)
C12_PriorityChain ==
    (pc \in {"recursed", "recurse_raised"} /\ plan_json \in WalkNodes) =>
        IF Walkable(plan_json)
        THEN /\ pc = "recursed"
             /\ ops = Identifiers({plan_json}) \cup Identifiers(ChildNodes(plan_json))
        ELSE pc = "recurse_raised"

C12_Witness ==
    /\ pc = "recursed"
    /\ plan_json = WNode(Str(""), Dict("op_name" :> Str("Foo")), Str("Filter"),
                         Str("Aggregate"), List(<<ChildLeaf>>), List(<<PlansLeaf>>),
                         PlanLeaf)
    /\ ops = {Str("Foo"), Str("Join"), Str("Sort"), Str("Limit")}

\* the children of a node, in the order children, Plans, plan
ChildSeq(node) ==
    (IF FieldOr(node, "children").t = "list" THEN FieldOr(node, "children").l ELSE <<>>)
    \o (IF FieldOr(node, "Plans").t = "list" THEN FieldOr(node, "Plans").l ELSE <<>>)
    \o (IF FieldOr(node, "plan").t \in {"dict", "list"} THEN <<FieldOr(node, "plan")>>
        ELSE <<>>)

\* the plans of the entries of a bundle
EntryPlans(bundle) ==
    LET q == FieldOr(bundle, "valid_queries")
        entries == IF q.t = "list" THEN SelectSeq(q.l, LAMBDA e : e.t = "dict") ELSE <<>>
        withPlan == SelectSeq(entries, LAMBDA e : FieldOr(e, "plan") # Null)
    IN [i \in 1..Len(withPlan) |-> withPlan[i].d["plan"]]

OperatorFields ==
    {"name", "plan_parameters", "nodeType", "Node Type", "children", "Plans", "plan"}

\* the plan nodes of a document with every wrapper unwrapped wherever it
\* occurs: a bundle gives the plans of its entries, a mapping none of whose
\* keys is an operator field gives its values
RECURSIVE NodesUnwrappingAll(_), NodesUnwrappingAllEach(_)
NodesUnwrappingAll(v) ==
    IF v.t = "list" THEN NodesUnwrappingAllEach(v.l)
    ELSE IF v.t # "dict" THEN <<>>
    ELSE IF "valid_queries" \in DOMAIN v.d THEN NodesUnwrappingAllEach(EntryPlans(v))
    ELSE IF DOMAIN v.d # {} /\ DOMAIN v.d \cap OperatorFields = {}
         THEN NodesUnwrappingAllEach(DictValues(v))
    ELSE <<v>> \o NodesUnwrappingAllEach(ChildSeq(v))
NodesUnwrappingAllEach(vs) ==
    IF vs = <<>> THEN <<>>
    ELSE NodesUnwrappingAll(Head(vs)) \o NodesUnwrappingAllEach(Tail(vs))

\* the plan nodes of a value below the top of a document as the walker
\* takes them: only a non-empty mapping keyed by digit strings alone is
\* unwrapped, any other mapping is a node
RECURSIVE NodesBelow(_), NodesBelowEach(_)
NodesBelow(v) ==
    IF v.t = "list" THEN NodesBelowEach(v.l)
    ELSE IF v.t # "dict" THEN <<>>
    ELSE IF DOMAIN v.d # {} /\ \A k \in DOMAIN v.d : IsDigit(k)
         THEN NodesBelowEach(DictValues(v))
    ELSE <<v>> \o NodesBelowEach(ChildSeq(v))
NodesBelowEach(vs) ==
    IF vs = <<>> THEN <<>> ELSE NodesBelow(Head(vs)) \o NodesBelowEach(Tail(vs))

\* the plan nodes of a document: a bundle is unwrapped at the top only
IsBundle(doc) == doc.t = "dict" /\ "valid_queries" \in DOMAIN doc.d
DocumentNodes(doc) ==
    IF IsBundle(doc) THEN NodesBelowEach(EntryPlans(doc)) ELSE NodesBelow(doc)

\* two sets with the same members, members compared as Python compares them
\* (the collected set holds one of 1 and True, whichever came first)
SameMembers(s, u) ==
    /\ \A x \in s : \E y \in u : PyEq(x, y)
    /\ \A y \in u : \E x \in s : PyEq(x, y)

\* how often a value occurs in a sequence
Occurrences(q, x) == Cardinality({ i \in 1..Len(q) : q[i] = x })
SameNodes(q, r) ==
    /\ Len(q) = Len(r)
    /\ \A i \in 1..Len(q) : Occurrences(q, q[i]) = Occurrences(r, q[i])

\* a document the walk gets through: the entries of a bundle are a list of
\* mappings (or there are none: an empty mapping or string in place of the
\* list), and every node has what the lookups need
WalkableDocument(doc) ==
    /\ IsBundle(doc) =>
         \/ doc.d["valid_queries"] \in {Dict(<<>>), Str("")}
         \/ /\ doc.d["valid_queries"].t = "list"
            /\ \A i \in 1..Len(doc.d["valid_queries"].l) :
                 doc.d["valid_queries"].l[i].t = "dict"
    /\ \A i \in 1..Len(DocumentNodes(doc)) : Walkable(DocumentNodes(doc)[i])

\* a document is walkable exactly when the walk over it does not raise
WalkRaisesOnlyUnwalkable ==
    pc \in {"collected", "collect_raised"} =>
        (pc = "collected" <=> WalkableDocument(plan_json))

\* C13 as stated: bundles and mappings without operator fields are unwrapped
\* wherever they occur, so every plan node of the document is visited once
\* and the collected set is the set of their identifiers.
C13_UnwrapsEverywhere ==
    (pc \in {"collected", "collect_raised"} /\ WalkableDocument(plan_json)) =>
        /\ pc = "collected"
        /\ SameNodes(collect_visited(plan_json), NodesUnwrappingAll(plan_json))
        /\ SameMembers(ops, Identifiers({ NodesUnwrappingAll(plan_json)[i] :
                                 i \in 1..Len(NodesUnwrappingAll(plan_json)) }))

\* C13 as the code has it: a bundle is unwrapped at the top of a document
\* only and a mapping only when it is non-empty and keyed by digit strings
\* alone; any other mapping is a node.  For the same documents as above,
\* every node so found is visited once and the collected set is the set of
\* their identifiers.
C13_UnwrapsDigitKeyed ==
    (pc \in {"collected", "collect_raised"} /\ WalkableDocument(plan_json)) =>
        /\ pc = "collected"
        /\ SameNodes(collect_visited(plan_json), DocumentNodes(plan_json))
        /\ SameMembers(ops, Identifiers({ DocumentNodes(plan_json)[i] :
                                 i \in 1..Len(DocumentNodes(plan_json)) }))

C13_Witness ==
    /\ pc = "collected"
    /\ IsBundle(plan_json)
    /\ Len(EntryPlans(plan_json)) = 2
    /\ Len(collect_visited(plan_json)) = 4
    /\ ops = {Str("Output"), Str("Filter"), Str("Sort")}

(***************************************************************************)
(* Properties of the pipeline                                              *)
(***************************************************************************)
\* the plans build_multi_dataset_df encodes for one source, in order
SourcePlans(cfg) ==
    IF IsModeA(cfg)
    THEN LET fs == Sorted(JsonFiles(cfg["plan_dir"]))
         IN [i \in 1..Len(fs) |-> PlanFile(cfg["plan_dir"], fs[i])]
    ELSE [i \in 1..Len(QueriesOf(cfg)) |-> QueriesOf(cfg)[i].d["plan"]]

\* and for the first n sources
RECURSIVE PlansUpTo(_)
PlansUpTo(n) ==
    IF n = 0 THEN <<>> ELSE PlansUpTo(n - 1) \o SourcePlans(dataset_configs[n])

\* over a node list: how many nodes are named op, and their summed cardinality
NamedCount(nodes, op) ==
    Cardinality({ k \in 1..Len(nodes) : HasName(nodes[k]) /\ nodes[k].d["name"].s = op })
NamedCardSum(nodes, op) ==
    SumSeq([k \in 1..Len(nodes) |->
              IF HasName(nodes[k]) /\ nodes[k].d["name"].s = op
              THEN TolerantCard(nodes[k]) ELSE 0])

\* C14: with the vocabulary the builder wrote, every operator sits in the
\* encoder's sorted list at its own index, so in the assembled table the
\* columns <op>_count and <op>_cardSum stand at the positions of that index
\* and hold, in every row, the count and the cardinality sum of the nodes
\* named op in that row's plan.
C14_ColumnsMatchPositions ==
    /\ \A op \in DOMAIN op_idx_dict :
         /\ op_idx_dict[op] + 1 \in 1..no_ops
         /\ op_list[op_idx_dict[op] + 1] = op
    /\ pc = "returned" =>
         \A op \in DOMAIN op_idx_dict :
            /\ df.columns[op_idx_dict[op] + 1] = op \o "_count"
            /\ df.columns[V + op_idx_dict[op] + 1] = op \o "_cardSum"
            /\ \A j \in 1..Len(df.rows) :
                 /\ feats_list[KeptIndices[j]][op_idx_dict[op] + 1] =
                      df.rows[j][op \o "_count"]
                 /\ feats_list[KeptIndices[j]][V + op_idx_dict[op] + 1] =
                      df.rows[j][op \o "_cardSum"]
                 /\ df.rows[j][op \o "_count"] =
                      NamedCount(VisitedNodes(PlansUpTo(Len(dataset_configs))[KeptIndices[j]]), op)
                 /\ df.rows[j][op \o "_cardSum"] =
                      NamedCardSum(VisitedNodes(PlansUpTo(Len(dataset_configs))[KeptIndices[j]]), op)

C14_Witness ==
    /\ pc = "returned"
    /\ op_idx_dict = ("Filter" :> 0) @@ ("Foo" :> 1) @@ ("Output" :> 2)
    /\ Cardinality(corpus) = 2
    /\ Len(df.rows) = 2
    /\ df.rows[1]["Foo_count"] = 1 /\ df.rows[1]["Output_count"] = 0
    /\ df.rows[1]["Foo_cardSum"] = 100 /\ df.rows[1]["Filter_cardSum"] = 40
    /\ df.rows[2]["Foo_count"] = 0 /\ df.rows[2]["Output_cardSum"] = 100
    /\ df.rows[2]["Filter_cardSum"] = 80

====
